---- MODULE Spec2Model ----
(***************************************************************************)
(* Model of the Diablo 4 streamer companion backend (server.mjs): the two  *)
(* JSON documents on disk (build.json, state.json), the HTTP handlers that *)
(* read and rewrite them, the realtime broadcast and the first message of  *)
(* a new realtime connection.                                              *)
(*                                                                         *)
(* Every handler body is synchronous once its (optional) outbound fetch    *)
(* has resolved, so one action is one handler run: read, modify, persist,  *)
(* broadcast, respond; the effects of the run are recorded in program      *)
(* order.  The counter increments are also given with the position of the  *)
(* callback made explicit (dispatched, state.json read, written), to       *)
(* examine requests that are in flight together.                           *)
(*                                                                         *)
(* JavaScript values:                                                      *)
(*  - a string is a sequence of chunks; the chunk " " is one whitespace    *)
(*    character, "%20" is its percent-encoding, every other chunk is a run *)
(*    of non-whitespace text (String.prototype.trim only looks at the ends)*)
(*  - an optional value (undefined / null / missing key) is <<>> and a     *)
(*    present value v is <<v>>                                             *)
(*  - a number supplied by a caller is counted in halves (h stands for     *)
(*    h/2), so that fractional indexes exist and Math.trunc acts on them   *)
(*  - arrays are 0-indexed in the code: index i is element i+1 here        *)
(*  - a JSON object is a record; a record with the key json is a value that *)
(*    is no object of the program's own: {} is [json |-> "object"], null is *)
(*    [json |-> "null"], and state.json missing or unparseable is           *)
(*    [json |-> "missing"], [json |-> "unparseable"]                        *)
(*  - build.json is the sequence of its entries (one bare object is read as *)
(*    the list of that object); a build.json that holds no list and no      *)
(*    object is the one-element sequence NotAList(kind)                     *)
(*  - an integer is an Int; a number that is no integer is JsNumber(h) with *)
(*    h odd                                                                  *)
(***************************************************************************)
EXTENDS Integers, Sequences, FiniteSets, TLC

VARIABLES
    buildFile,   \* content of data/build.json (the build catalog)
    stateFile,   \* content of data/state.json (the top-level state document)
    resp,        \* the last HTTP response: [op, status, body]
    bcast,       \* payload broadcast by the last handler: <<>> or <<doc>>
    wsFirst,     \* first message sent to a client connecting in the last step: <<>> or <<doc>>
    clients,     \* realtime connections: client id -> "absent", "open" or "closing"
    effects,     \* what the last handler run did, in program order
    requests,    \* counter requests in flight: id -> [pc, kind, state]
    origin,      \* the Origin header the callers send (the empty string: none)
    headers,     \* the headers of the last HTTP response that the server sets itself
    panel,       \* the panel page: its realtime channel, polling and countdowns
    config       \* a configuration page (admin or live config): its delete
                 \* button, its notice and their timers

serverVars ==
    <<buildFile, stateFile, resp, bcast, wsFirst, clients, effects, requests,
      origin, headers>>

vars == <<serverVars, panel, config>>

----------------------------------------------------------------------------
(* Bounds of the model *)

MaxBuilds == 3
MaxCount == 2
MaxClients == 2
MaxRequests == 3

----------------------------------------------------------------------------
(* Strings *)

WS == " "
EmptyStr == <<>>
ManualSource == <<"manual">>
MobalyticsSource == <<"mobalytics">>
PlaceholderTitle == <<"Aucune build importée">>
MobalyticsPrefix == "https://mobalytics.gg/"

RECURSIVE trimStart(_)
trimStart(s) ==
    IF s # <<>> /\ Head(s) = WS THEN trimStart(Tail(s)) ELSE s

RECURSIVE trimEnd(_)
trimEnd(s) ==
    IF s # <<>> /\ s[Len(s)] = WS THEN trimEnd(SubSeq(s, 1, Len(s) - 1)) ELSE s

trim(s) == trimEnd(trimStart(s))

\* a || b on strings: the empty string is falsy
OrElse(s, d) == IF s = EmptyStr THEN d ELSE s

\* a ?? b: undefined and null fall through to b
Coalesce(opt, d) == IF opt = <<>> THEN d ELSE opt[1]

\* decodeURIComponent: "%20" decodes to a space; a "%" that starts no escape
\* sequence makes it throw URIError
decodable(s) == \A i \in DOMAIN s : s[i] # "%"
decodeURIComponent(s) == [i \in DOMAIN s |-> IF s[i] = "%20" THEN WS ELSE s[i]]

startsWithPrefix(s) == s # <<>> /\ s[1] = MobalyticsPrefix

----------------------------------------------------------------------------
(* Response headers.  An Origin is a string in chunks: a scheme, runs of    *)
(* letters and digits, and the other characters and suffixes; the three     *)
(* development origins are one chunk each.                                  *)

NoHeaders ==
    [allowOrigin |-> <<>>, vary |-> <<>>, allowMethods |-> <<>>,
     allowHeaders |-> <<>>, maxAge |-> <<>>, cacheControl |-> <<>>]

\* runs of letters and digits, in either case (the expression has the i flag)
AlphanumericRuns == {"abc123", "ABC123", "a", "b", "evil"}

\* ALLOWED_ORIGIN_RE.test(o): ^https:\/\/[a-z0-9]+\.ext-twitch\.tv$ with flag i
ALLOWED_ORIGIN_RE(o) ==
    /\ Len(o) = 3
    /\ o[1] = "https://"
    /\ o[2] \in AlphanumericRuns
    /\ o[3] = ".ext-twitch.tv"

EXTRA_ALLOWED_ORIGINS ==
    { <<"http://localhost:3199">>, <<"http://localhost:3000">>,
      <<"http://localhost:5173">> }

\* the headers applyCors sets for a request whose Origin header is o
applyCors(o) ==
    LET org == trim(o)
        isAllowed == org # EmptyStr
                        /\ (ALLOWED_ORIGIN_RE(org) \/ org \in EXTRA_ALLOWED_ORIGINS)
    IN  IF isAllowed
        THEN [NoHeaders EXCEPT !.allowOrigin = <<org>>,
                               !.vary = <<"Origin">>,
                               !.allowMethods = <<"GET,POST,OPTIONS">>,
                               !.allowHeaders = <<"Authorization,Content-Type">>,
                               !.maxAge = <<"86400">>]
        ELSE NoHeaders

\* the routes whose handler sets Cache-Control itself
NoStoreRoutes == {"GET /health", "GET /state", "GET /import/mobalytics"}

\* the headers of the answer to request op, in the order the application
\* registers its routes and middleware: /health, then the CORS middleware
\* (which answers every OPTIONS request itself), then the other routes
responseHeaders(op, o) ==
    IF op = "GET /health" THEN [NoHeaders EXCEPT !.cacheControl = <<"no-store">>]
    ELSE IF op = "OPTIONS" THEN applyCors(o)
    ELSE IF op \in NoStoreRoutes THEN [applyCors(o) EXCEPT !.cacheControl = <<"no-store">>]
    ELSE applyCors(o)

----------------------------------------------------------------------------
(* JSON values of unexpected shape *)

Shape(kind) == [json |-> kind]

EmptyObject == Shape("object")
NullEntry == Shape("null")
NotAList(kind) == <<[json |-> kind, list |-> FALSE]>>

\* readJsonSafe(path, fallback) on a file holding content
readJsonSafe(content, fallback) ==
    IF "json" \in DOMAIN content /\ content.json \in {"missing", "unparseable"}
    THEN fallback
    ELSE content

\* readJsonSafe(STATE_PATH, {}): what a handler reads of state.json
readState == readJsonSafe(stateFile, EmptyObject)

\* v && typeof v === "object"
truthyObject(v) == IF "json" \in DOMAIN v THEN v.json = "object" ELSE TRUE

\* Array.isArray on a value held where the catalog is expected
arrayIsArray(builds) == ~(Len(builds) = 1 /\ "list" \in DOMAIN builds[1])

\* the integers a cursor of the model can hold
IndexRange == (0 - MaxBuilds - 1) .. (MaxBuilds + 1)

\* Number.isInteger
numberIsInteger(v) == ToString(v) \in {ToString(i) : i \in IndexRange}

\* ensureCounters
ensureCounters(state) ==
    LET s == IF truthyObject(state) THEN state ELSE EmptyObject
        zeroed == [deaths |-> 0, uniques |-> 0]
    IN  IF "counters" \notin DOMAIN s \/ ~truthyObject(s.counters)
        THEN ("counters" :> zeroed) @@ s
        ELSE ("counters" :> (s.counters @@ zeroed)) @@ s

----------------------------------------------------------------------------
(* Build catalog *)

NoBuild == [undefined |-> TRUE]

defaultBuild ==
    [source |-> ManualSource, title |-> PlaceholderTitle, author |-> EmptyStr,
     updatedOn |-> EmptyStr, url |-> EmptyStr, highlights |-> <<>>]

isPlaceholder(b) == b.source = ManualSource /\ b.title = PlaceholderTitle

RECURSIVE filterPlaceholder(_)
filterPlaceholder(builds) ==
    IF builds = <<>> THEN <<>>
    ELSE IF isPlaceholder(Head(builds)) THEN filterPlaceholder(Tail(builds))
    ELSE <<Head(builds)>> \o filterPlaceholder(Tail(builds))

\* mutant: the placeholder entries are never filtered out
stripPlaceholderKeepAll(builds) ==
    IF builds = <<>> THEN <<defaultBuild>> ELSE builds

stripPlaceholder(builds) ==
    IF ~arrayIsArray(builds) THEN <<defaultBuild>>
    ELSE LET filtered == IF Len(builds) > 1 THEN filterPlaceholder(builds) ELSE builds
         IN  IF filtered = <<>> THEN <<defaultBuild>> ELSE filtered

\* the filter of stripPlaceholder reads b.source of a null entry: TypeError
filterThrows(builds) ==
    Len(builds) > 1 /\ \E i \in DOMAIN builds : builds[i] = NullEntry

\* readBuilds on a build.json holding file: what is missing, does not parse,
\* is no list and no object, or makes the filter throw is the default catalog
readBuilds(file) ==
    IF ~arrayIsArray(file) \/ filterThrows(file) THEN <<defaultBuild>>
    ELSE stripPlaceholder(file)

writeBuilds(builds) == stripPlaceholder(builds)

\* builds[i] of the code: undefined outside the array
At(builds, i) == IF i \in 0 .. Len(builds) - 1 THEN builds[i + 1] ELSE NoBuild

\* x || defaultBuild() on a build: undefined and null are falsy
BuildOr(b, d) == IF b = NoBuild \/ b = NullEntry THEN d ELSE b

\* mutant: the cursor read from state.json is not repaired
ensureBuildStateUnclamped(file, state) ==
    LET builds == stripPlaceholder(readBuilds(file))
    IN  [state EXCEPT !.builds = builds,
                      !.build = BuildOr(At(builds, state.currentBuildIndex),
                                        defaultBuild)]

\* mutant: a cursor that is no valid index is repaired to the first build
ensureBuildStateFirst(file, state) ==
    LET s == IF truthyObject(state) THEN state ELSE EmptyObject
        builds == stripPlaceholder(readBuilds(file))
        idx == IF \/ "currentBuildIndex" \notin DOMAIN s
                  \/ ~numberIsInteger(s.currentBuildIndex)
                  \/ s.currentBuildIndex < 0
                  \/ s.currentBuildIndex >= Len(builds)
               THEN 0
               ELSE s.currentBuildIndex
    IN  ("builds" :> builds) @@ ("currentBuildIndex" :> idx)
            @@ ("build" :> BuildOr(At(builds, idx), defaultBuild)) @@ s

\* ensureBuildState(state) with build.json holding file
ensureBuildState(file, state) ==
    LET s == IF truthyObject(state) THEN state ELSE EmptyObject
        builds == stripPlaceholder(readBuilds(file))
        idx == IF \/ "currentBuildIndex" \notin DOMAIN s
                  \/ ~numberIsInteger(s.currentBuildIndex)
                  \/ s.currentBuildIndex < 0
                  \/ s.currentBuildIndex >= Len(builds)
               THEN (IF Len(builds) > 0 THEN Len(builds) - 1 ELSE 0)
               ELSE s.currentBuildIndex
    IN  ("builds" :> builds) @@ ("currentBuildIndex" :> idx)
            @@ ("build" :> BuildOr(At(builds, idx), defaultBuild)) @@ s

----------------------------------------------------------------------------
(* Numbers and request values.  A JSON value a caller supplies as index is  *)
(* undefined (key missing), null, a string that is no numeral, or a number  *)
(* counted in halves; a JSON number too large for a double parses to         *)
(* Infinity.                                                                 *)

JsUndefined == [t |-> "undefined", halves |-> 0]
JsNull == [t |-> "null", halves |-> 0]
JsText == [t |-> "string", halves |-> 0]
JsInfinity == [t |-> "infinity", halves |-> 0]
JsNumber(h) == [t |-> "number", halves |-> h]

\* Number(v), as [finite, halves]: NaN and Infinity are not finite
toNumber(v) ==
    CASE v.t = "number" -> [finite |-> TRUE, halves |-> v.halves]
      [] v.t = "null" -> [finite |-> TRUE, halves |-> 0]
      [] OTHER -> [finite |-> FALSE, halves |-> 0]

\* Math.trunc: towards zero
mathTrunc(h) == IF h >= 0 THEN h \div 2 ELSE -((-h) \div 2)

Min(a, b) == IF a < b THEN a ELSE b
Max(a, b) == IF a > b THEN a ELSE b

clampIndex(i, total) == Min(Max(0, i), total - 1)

\* the index resolution shared by /build/update and /build/delete
targetIndex(idxNum, state, total) ==
    IF idxNum.finite THEN clampIndex(mathTrunc(idxNum.halves), total)
    ELSE clampIndex(state.currentBuildIndex, total)

----------------------------------------------------------------------------
(* Initial state: the files written by ensureDirs on first start *)

NoEvents == [nextWorldBoss |-> <<>>, nextLegion |-> <<>>, nextHelltide |-> <<>>]

InitialObjectives == << <<"Objectif 1">>, <<"Objectif 2">>, <<"Objectif 3">> >>

\* the instant of the first start, in milliseconds
StartMs == 0

InitialState ==
    [nowIso |-> StartMs,
     timezone |-> "Europe/Paris",
     counters |-> [deaths |-> 0, uniques |-> 0],
     objectives |-> InitialObjectives,
     events |-> NoEvents,
     builds |-> <<defaultBuild>>,
     currentBuildIndex |-> 0,
     build |-> defaultBuild]

NoResponse == [op |-> "none", status |-> 0, body |-> <<>>]

ClientIds == 1 .. MaxClients
RequestIds == 1 .. MaxRequests

NoRequest == [pc |-> "none", kind |-> "", state |-> <<>>]

\* the server before its first request
InitServer ==
    /\ resp = NoResponse
    /\ bcast = <<>>
    /\ wsFirst = <<>>
    /\ clients = [c \in ClientIds |-> "absent"]
    /\ effects = <<>>
    /\ requests = [r \in RequestIds |-> NoRequest]
    /\ headers = NoHeaders

\* the panel page once its script has run: served from the extension host
\* (hosted) it opens no WebSocket; elsewhere the socket is open unless the
\* constructor threw; the initial fetch of /state is in flight; pollTicks is
\* the number of polling ticks so far, modulo 2, and poll what the last did;
\* fetching counts the fetches of /state the server has not answered yet,
\* responses holds its answers on their way, accepted tells whether the
\* server has accepted the socket, inbox holds the messages it has sent and
\* the panel has not received yet, navs counts the clicks on next and prev
PanelLoaded(hosted, threw) ==
    [hosted |-> hosted,
     socket |-> IF hosted \/ threw THEN "none" ELSE "open",
     wsOk |-> FALSE,
     heard |-> "none",
     currentState |-> <<>>,
     tickedAt |-> <<>>,
     wbTime |-> "", legTime |-> "", htTime |-> "",
     poll |-> "none",
     pollTicks |-> 0,
     fetching |-> 1,
     responses |-> <<>>,
     accepted |-> FALSE,
     inbox |-> <<>>,
     navs |-> 0]

\* the clock of the page when its script has run, in ms: Date.now() is
\* positive
PageStartMs == 1000

\* a configuration page once its script has run: the delete button is not
\* armed, no notice is shown, no timer and no request is pending; clicks holds
\* the instants of the delete clicks whose handler awaits the state, log what
\* each delete handler decided and when (and the build at the cursor it
\* loaded), posted the indices of the deletes sent and not yet answered,
\* served how many of them the server has handled, removed the builds the
\* server removed for this page
PageLoaded ==
    [now |-> PageStartMs,
     deleteArmedUntil |-> 0,
     clicks |-> <<>>,
     log |-> <<>>,
     posted |-> <<>>,
     served |-> 0,
     removed |-> <<>>,
     notice |-> [text |-> "", at |-> 0],
     timers |-> {}]

Init ==
    /\ buildFile = <<defaultBuild>>
    /\ stateFile = InitialState
    /\ origin = EmptyStr
    /\ InitServer
    /\ panel = PanelLoaded(FALSE, FALSE)
    /\ config = PageLoaded

----------------------------------------------------------------------------
(* Realtime channel *)

\* the payload broadcastState sends when the two files hold file and state
broadcastState(file, state) == ensureBuildState(file, state)

\* one effect of a handler run; a send names the client it goes to
Fx(e) == [e |-> e, to |-> 0]
SendTo(c) == [e |-> "send", to |-> c]

\* mutant: the broadcast loop does not look at readyState
RECURSIVE sendsToAll(_, _)
sendsToAll(cl, c) ==
    IF c > MaxClients THEN <<>>
    ELSE (IF cl[c] # "absent" THEN <<SendTo(c)>> ELSE <<>>) \o sendsToAll(cl, c + 1)

\* the loop of broadcastState over wss.clients, from client c on: one send to
\* each client whose readyState is 1 (open)
RECURSIVE sendsFrom(_, _)
sendsFrom(cl, c) ==
    IF c > MaxClients THEN <<>>
    ELSE (IF cl[c] = "open" THEN <<SendTo(c)>> ELSE <<>>) \o sendsFrom(cl, c + 1)

\* a callback runs to completion: none is dispatched while another one is
\* between its read of state.json and its write
Idle == \A r \in RequestIds : requests[r].pc # "read"

\* wss.on("connection"): the raw state.json is the first message
WsConnect(c) ==
    /\ Idle
    /\ clients[c] = "absent"
    /\ clients' = [clients EXCEPT ![c] = "open"]
    /\ wsFirst' = <<readState>>
    /\ effects' = <<SendTo(c)>>
    /\ resp' = NoResponse
    /\ headers' = NoHeaders
    /\ bcast' = <<>>
    /\ UNCHANGED <<origin, panel, config, buildFile, stateFile, requests>>

\* a connection starts its closing handshake (readyState 2) or is gone
WsLeave(c, to) ==
    /\ Idle
    /\ clients[c] # "absent"
    /\ clients[c] # to
    /\ clients' = [clients EXCEPT ![c] = to]
    /\ wsFirst' = <<>>
    /\ effects' = <<>>
    /\ resp' = NoResponse
    /\ headers' = NoHeaders
    /\ bcast' = <<>>
    /\ UNCHANGED <<origin, panel, config, buildFile, stateFile, requests>>

\* a handler that answers without writing or broadcasting, after the effects
\* before
AnswerAfter(before, op, status, body) ==
    /\ Idle
    /\ resp' = [op |-> op, status |-> status, body |-> body]
    /\ headers' = responseHeaders(op, origin)
    /\ bcast' = <<>>
    /\ wsFirst' = <<>>
    /\ effects' = before \o <<Fx("respond")>>
    /\ UNCHANGED <<origin, panel, config, buildFile, stateFile, clients, requests>>

Answer(op, status, body) == AnswerAfter(<<>>, op, status, body)

\* a handler that, after the effects before, persists state.json (and
\* build.json), broadcasts, answers
\* what a handler that writes does on the server
CommitWrites(before, op, file, state, body) ==
    /\ Idle
    /\ buildFile' = file
    /\ stateFile' = state
    /\ bcast' = <<broadcastState(file, state)>>
    /\ resp' = [op |-> op, status |-> 200, body |-> body]
    /\ headers' = responseHeaders(op, origin)
    /\ wsFirst' = <<>>
    /\ effects' = before \o <<Fx("write")>> \o sendsFrom(clients, 1) \o <<Fx("respond")>>
    /\ UNCHANGED <<origin, clients, requests>>

CommitAfter(before, op, file, state, body) ==
    /\ CommitWrites(before, op, file, state, body)
    /\ UNCHANGED <<panel, config>>

Commit(op, file, state, body) == CommitAfter(<<>>, op, file, state, body)

\* GET /health
GetHealth(nowMs) == Answer("GET /health", 200, [ok |-> TRUE, ts |-> nowMs])

\* an OPTIONS request (the preflight of a browser), to any path
Preflight == Answer("OPTIONS", 204, <<>>)

GetState == Answer("GET /state", 200, ensureBuildState(buildFile, readState))

----------------------------------------------------------------------------
(* Counters *)

counterInc(n) == n + 1
\* mutant: the decrement has no floor
counterDecUnclamped(n) == n - 1

counterDec(n) == Max(n - 1, 0)

CounterDeathsInc ==
    /\ ensureCounters(readState).counters.deaths < MaxCount
    /\ LET state == [ensureCounters(readState) EXCEPT !.counters.deaths = counterInc(@)]
       IN  Commit("POST /counter/deaths/inc", buildFile, state,
                  [ok |-> TRUE, deaths |-> state.counters.deaths])

CounterDeathsDec ==
    LET state == [ensureCounters(readState) EXCEPT !.counters.deaths = counterDec(@)]
    IN  Commit("POST /counter/deaths/dec", buildFile, state,
               [ok |-> TRUE, deaths |-> state.counters.deaths])

CounterUniquesInc ==
    /\ ensureCounters(readState).counters.uniques < MaxCount
    /\ LET state == [ensureCounters(readState) EXCEPT !.counters.uniques = counterInc(@)]
       IN  Commit("POST /counter/uniques/inc", buildFile, state,
                  [ok |-> TRUE, uniques |-> state.counters.uniques])

CounterUniquesDec ==
    LET state == [ensureCounters(readState) EXCEPT !.counters.uniques = counterDec(@)]
    IN  Commit("POST /counter/uniques/dec", buildFile, state,
               [ok |-> TRUE, uniques |-> state.counters.uniques])

\* mutant: the deaths-only reset zeroes both counters
CounterDeathsResetBoth ==
    LET state == [ensureCounters(readState) EXCEPT !.counters = [deaths |-> 0, uniques |-> 0]]
    IN  Commit("POST /counter/deaths/reset", buildFile, state,
               [ok |-> TRUE, deaths |-> state.counters.deaths])

CounterDeathsReset ==
    LET state == [ensureCounters(readState) EXCEPT !.counters.deaths = 0]
    IN  Commit("POST /counter/deaths/reset", buildFile, state,
               [ok |-> TRUE, deaths |-> state.counters.deaths])

CounterUniquesReset ==
    LET state == [ensureCounters(readState) EXCEPT !.counters.uniques = 0]
    IN  Commit("POST /counter/uniques/reset", buildFile, state,
               [ok |-> TRUE, uniques |-> state.counters.uniques])

CounterReset ==
    LET state == [ensureCounters(readState) EXCEPT !.counters = [deaths |-> 0, uniques |-> 0]]
    IN  Commit("POST /counter/reset", buildFile, state,
               [ok |-> TRUE, counters |-> state.counters])

----------------------------------------------------------------------------
(* Build creation: POST /build and GET /import/mobalytics *)

\* the build record POST /build makes of its body
buildOfBody(body) ==
    [source |-> OrElse(trim(Coalesce(body.source, ManualSource)), ManualSource),
     title |-> OrElse(trim(Coalesce(body.title, EmptyStr)), PlaceholderTitle),
     author |-> trim(Coalesce(body.author, EmptyStr)),
     updatedOn |-> trim(Coalesce(body.updatedOn, EmptyStr)),
     url |-> trim(Coalesce(body.url, EmptyStr)),
     highlights |-> <<>>]

\* builds = readBuilds(); builds.push(build); builds = stripPlaceholder(builds)
appendBuild(file, build) == stripPlaceholder(readBuilds(file) \o <<build>>)

\* the state document POST /build and the import persist
stateAfterAppend(file, state, builds, build) ==
    [ensureBuildState(file, state) EXCEPT !.builds = builds,
                                          !.currentBuildIndex = Len(builds) - 1,
                                          !.build = build]

PostBuild(body) ==
    LET build == buildOfBody(body)
        builds == appendBuild(buildFile, build)
        file == writeBuilds(builds)
    IN  /\ Len(builds) <= MaxBuilds
        /\ Commit("POST /build", file, stateAfterAppend(file, readState, builds, build),
                  [ok |-> TRUE, build |-> build])

\* what importFromMobalytics returns for the text found in the fetched page
importFromMobalytics(url, page) ==
    [source |-> MobalyticsSource,
     title |-> OrElse(trim(page.h1), <<"Build", WS, "(Mobalytics)">>),
     author |-> trim(page.author),
     updatedOn |-> page.updatedOn,
     url |-> url,
     highlights |-> page.highlights]

queryUrl(q) == decodeURIComponent(trim(q))

\* the URIError of decodeURIComponent escapes the async handler before its
\* try block: the request gets no response (the rejection is unhandled) or the
\* framework's 500, depending on the framework version
ImportMalformed(q, answered) ==
    /\ Idle
    /\ ~decodable(trim(q))
    /\ resp' = [op |-> "GET /import/mobalytics",
                status |-> IF answered THEN 500 ELSE 0,
                body |-> IF answered
                         THEN [error |-> [message |-> "URI malformed", status |-> 0]]
                         ELSE <<>>]
    /\ headers' = IF answered THEN responseHeaders("GET /import/mobalytics", origin)
                  ELSE NoHeaders
    /\ effects' = IF answered THEN <<Fx("respond")>> ELSE <<>>
    /\ bcast' = <<>>
    /\ wsFirst' = <<>>
    /\ UNCHANGED <<origin, panel, config, buildFile, stateFile, clients, requests>>

ImportRejected(q) ==
    /\ decodable(trim(q))
    /\ ~startsWithPrefix(queryUrl(q))
    /\ Answer("GET /import/mobalytics", 400,
              [error |-> "URL invalide (attendu: https://mobalytics.gg/...)"])

\* e.message of the error importFromMobalytics throws: the one of fetch for a
\* network failure (status 0 here), else the HTTP status of the build page
importError(failure) ==
    IF failure = 0 THEN [message |-> "fetch failed", status |-> 0]
    ELSE [message |-> "Mobalytics fetch failed: HTTP", status |-> failure]

\* mutant: a failed import moves the cursor to the first build and broadcasts
ImportFailedResets(q, failure) ==
    /\ decodable(trim(q))
    /\ startsWithPrefix(queryUrl(q))
    /\ CommitAfter(<<Fx("fetch")>>, "GET /import/mobalytics", buildFile,
                   [stateFile EXCEPT !.currentBuildIndex = 0],
                   [error |-> importError(failure)])

ImportFailed(q, failure) ==
    /\ decodable(trim(q))
    /\ startsWithPrefix(queryUrl(q))
    /\ AnswerAfter(<<Fx("fetch")>>, "GET /import/mobalytics", 500,
                   [error |-> importError(failure)])

ImportMobalytics(q, page) ==
    LET build == importFromMobalytics(queryUrl(q), page)
        builds == appendBuild(buildFile, build)
        file == writeBuilds(builds)
    IN  /\ decodable(trim(q))
        /\ startsWithPrefix(queryUrl(q))
        /\ Len(builds) <= MaxBuilds
        /\ CommitAfter(<<Fx("fetch")>>, "GET /import/mobalytics", file,
                       stateAfterAppend(file, readState, builds, build),
                       [ok |-> TRUE, build |-> build])

----------------------------------------------------------------------------
(* Build update, navigation, selection, deletion *)

\* mutant: a field absent from the body is blanked instead of kept
updatedBuildBlank(body, old) ==
    [source |-> OrElse(trim(Coalesce(body.source, ManualSource)), ManualSource),
     title |-> OrElse(trim(Coalesce(body.title, old.title)), PlaceholderTitle),
     author |-> trim(Coalesce(body.author, EmptyStr)),
     updatedOn |-> trim(Coalesce(body.updatedOn, EmptyStr)),
     url |-> trim(Coalesce(body.url, EmptyStr)),
     highlights |-> <<>>]

\* mutant: the updated build keeps its highlights
updatedBuildKeepsHighlights(body, old) ==
    [source |-> OrElse(trim(Coalesce(body.source, old.source)), ManualSource),
     title |-> OrElse(trim(Coalesce(body.title, old.title)), PlaceholderTitle),
     author |-> trim(Coalesce(body.author, old.author)),
     updatedOn |-> trim(Coalesce(body.updatedOn, old.updatedOn)),
     url |-> trim(Coalesce(body.url, old.url)),
     highlights |-> old.highlights]

\* the record /build/update puts at the target index
updatedBuild(body, old) ==
    [source |-> OrElse(trim(Coalesce(body.source, old.source)), ManualSource),
     title |-> OrElse(trim(Coalesce(body.title, old.title)), PlaceholderTitle),
     author |-> trim(Coalesce(body.author, old.author)),
     updatedOn |-> trim(Coalesce(body.updatedOn, old.updatedOn)),
     url |-> trim(Coalesce(body.url, old.url)),
     highlights |-> <<>>]

\* the answer of update, next, prev, select and delete
navBody(state, total) ==
    [ok |-> TRUE, build |-> state.build,
     currentBuildIndex |-> state.currentBuildIndex, total |-> total]

BuildUpdate(index, body) ==
    LET state == ensureBuildState(buildFile, readState)
        builds0 == stripPlaceholder(readBuilds(buildFile))
        targetIdx == targetIndex(toNumber(index), state, Len(builds0))
        updated == updatedBuild(body, builds0[targetIdx + 1])
        builds == stripPlaceholder([builds0 EXCEPT ![targetIdx + 1] = updated])
        newState == [state EXCEPT !.builds = builds,
                                  !.currentBuildIndex = targetIdx,
                                  !.build = At(builds, targetIdx)]
    IN  Commit("POST /build/update", writeBuilds(builds), newState,
               navBody(newState, Len(builds)))

\* mutant: next stops at the last build instead of wrapping
nextIndexNoWrap(i, total) == Min(i + 1, total - 1)

nextIndex(i, total) == (i + 1) % total
prevIndex(i, total) == (i - 1 + total) % total

\* next, prev and select: move the cursor of the catalog-consistent state
\* the state next, prev and select write when they move the cursor
moved(cursor) ==
    LET state == ensureBuildState(buildFile, readState)
    IN  [state EXCEPT !.currentBuildIndex = cursor,
                      !.build = At(state.builds, cursor)]

moveCursor(op, cursor) ==
    LET newState == moved(cursor)
    IN  Commit(op, buildFile, newState, navBody(newState, Len(newState.builds)))

BuildNext ==
    LET state == ensureBuildState(buildFile, readState)
    IN  moveCursor("POST /build/next",
                   nextIndex(state.currentBuildIndex, Len(state.builds)))

BuildPrev ==
    LET state == ensureBuildState(buildFile, readState)
    IN  moveCursor("POST /build/prev",
                   prevIndex(state.currentBuildIndex, Len(state.builds)))

BuildSelect(index) ==
    LET state == ensureBuildState(buildFile, readState)
        idx == toNumber(index)
    IN  /\ idx.finite
        /\ moveCursor("POST /build/select",
                      clampIndex(mathTrunc(idx.halves), Len(state.builds)))

BuildSelectRejected(index) ==
    /\ ~toNumber(index).finite
    /\ Answer("POST /build/select", 400, [error |-> "index requis"])

\* mutant: the first build is removed whatever the target
spliceFirst(builds, targetIdx) == Tail(builds)

\* builds.splice(targetIdx, 1)
splice(builds, targetIdx) ==
    SubSeq(builds, 1, targetIdx) \o SubSeq(builds, targetIdx + 2, Len(builds))

\* what POST /build/delete with this index removes, writes and answers
deleted(index) ==
    LET state == ensureBuildState(buildFile, readState)
        builds0 == stripPlaceholder(readBuilds(buildFile))
        targetIdx == targetIndex(toNumber(index), state, Len(builds0))
        spliced == splice(builds0, targetIdx)
        builds == stripPlaceholder(IF spliced = <<>> THEN <<defaultBuild>> ELSE spliced)
        cursor == Min(targetIdx, Len(builds) - 1)
        newState == [state EXCEPT !.builds = builds,
                                  !.currentBuildIndex = cursor,
                                  !.build = At(builds, cursor)]
    IN  [removed |-> At(builds0, targetIdx),
         file |-> writeBuilds(builds),
         state |-> newState,
         body |-> navBody(newState, Len(builds))]

BuildDelete(index) ==
    LET d == deleted(index)
    IN  Commit("POST /build/delete", d.file, d.state, d.body)

----------------------------------------------------------------------------
(* Objectives *)

\* objectives.map((x) => String(x)) on an array of strings and integers
jsString(x) == IF x.t = "string" THEN x.s ELSE <<ToString(x.n)>>

mapString(items) == [i \in DOMAIN items |-> jsString(items[i])]

\* mutant: the saved list is appended to the stored one
PostObjectivesMerge(items) ==
    LET state == [stateFile EXCEPT !.objectives = @ \o mapString(items)]
    IN  Commit("POST /objectives", buildFile, state,
               [ok |-> TRUE, objectives |-> state.objectives])

\* the body holds the array items under objectives
PostObjectives(items) ==
    LET stored == readState
        state == ("objectives" :> mapString(items)) @@ stored
    IN  /\ truthyObject(stored)
        /\ Commit("POST /objectives", buildFile, state,
                  [ok |-> TRUE, objectives |-> state.objectives])

\* state.json holds null or a primitive: the assignment state.objectives = ...
\* throws TypeError (module code is strict) and the framework answers 500
PostObjectivesThrown(items) ==
    /\ ~truthyObject(readState)
    /\ Answer("POST /objectives", 500, [error |-> "TypeError"])

\* Array.isArray on the objectives value of the body
isArray(v) == v.t = "array"

\* mutant: what is no array is saved as the empty list
PostObjectivesRejectedClears(v) ==
    /\ ~isArray(v)
    /\ Commit("POST /objectives", buildFile, [stateFile EXCEPT !.objectives = <<>>],
              [ok |-> TRUE, objectives |-> <<>>])

\* the objectives key is missing or holds something that is no array
PostObjectivesRejected(v) ==
    /\ ~isArray(v)
    /\ Answer("POST /objectives", 400,
              [error |-> "Body attendu: { objectives: string[] }"])

----------------------------------------------------------------------------
(* Event refresh: the 30 s timer and POST /events/refresh.  A schedule     *)
(* entry carries startTime as [t, ms]: an ISO date string denoting the      *)
(* instant ms ("iso"), a string that is no date ("text"), or the number ms  *)
(* ("number"); a list of the schedule is <<>> when the key is missing or    *)
(* holds no array and <<entries>> otherwise.                                *)

\* new Date(startTime).getTime(), as [finite, ms]: NaN for what is no date
dateMs(startTime) ==
    IF startTime.t \in {"iso", "number"} THEN [finite |-> TRUE, ms |-> startTime.ms]
    ELSE [finite |-> FALSE, ms |-> 0]

\* mutant: the seconds are rounded up instead of down
toUnixSecondsCeil(startTime) == -((-startTime.ms) \div 1000)

\* toUnixSeconds on a date string: Math.floor(getTime() / 1000)
toUnixSeconds(startTime) == startTime.ms \div 1000

\* toUnixSeconds takes a number for a Date object and calls getTime on it
toUnixSecondsThrows(startTime) == startTime.t = "number"

\* entries kept by the filter of pickNextByStartTime
isUpcoming(x, nowMs) == dateMs(x.startTime).finite /\ dateMs(x.startTime).ms > nowMs

RECURSIVE filterUpcoming(_, _)
filterUpcoming(items, nowMs) ==
    IF items = <<>> THEN <<>>
    ELSE (IF isUpcoming(Head(items), nowMs) THEN <<Head(items)>> ELSE <<>>)
             \o filterUpcoming(Tail(items), nowMs)

\* Array.prototype.sort by startMs is stable: x goes behind every entry that
\* does not start later
RECURSIVE insertByStart(_, _)
insertByStart(x, sorted) ==
    IF sorted = <<>> THEN <<x>>
    ELSE IF dateMs(Head(sorted).startTime).ms <= dateMs(x.startTime).ms
         THEN <<Head(sorted)>> \o insertByStart(x, Tail(sorted))
         ELSE <<x>> \o sorted

RECURSIVE sortByStart(_)
sortByStart(items) ==
    IF items = <<>> THEN <<>>
    ELSE insertByStart(items[Len(items)], sortByStart(SubSeq(items, 1, Len(items) - 1)))

\* <<>> is null
pickNextByStartTime(list, nowMs) ==
    IF list = <<>> THEN <<>>
    ELSE LET sorted == sortByStart(filterUpcoming(list[1], nowMs))
         IN  IF sorted = <<>> THEN <<>> ELSE <<sorted[1]>>

formatThrows(evt) == evt # <<>> /\ toUnixSecondsThrows(evt[1].startTime)

formatEventForOverlay(evt, type) ==
    IF evt = <<>> THEN <<>>
    ELSE CASE type = "world_boss" ->
                <<[type |-> "world_boss",
                   title |-> IF evt[1].boss # EmptyStr
                             THEN <<"World Boss:", WS>> \o evt[1].boss
                             ELSE <<"World Boss">>,
                   zone |-> IF evt[1].zone = <<>> THEN EmptyStr ELSE evt[1].zone[1],
                   startTime |-> evt[1].startTime,
                   startTs |-> toUnixSeconds(evt[1].startTime)]>>
           [] type = "legion" ->
                <<[type |-> "legion", title |-> <<"Légion">>, zone |-> EmptyStr,
                   startTime |-> evt[1].startTime,
                   startTs |-> toUnixSeconds(evt[1].startTime)]>>
           [] type = "helltide" ->
                <<[type |-> "helltide", title |-> <<"Helltide">>, zone |-> EmptyStr,
                   startTime |-> evt[1].startTime,
                   startTs |-> toUnixSeconds(evt[1].startTime)]>>
           [] OTHER -> <<>>

\* the three projections refreshEvents computes from the fetched schedule
nextEvents(schedule, nowMs) ==
    [nextWorldBoss |->
        formatEventForOverlay(pickNextByStartTime(schedule.world_boss, nowMs), "world_boss"),
     nextLegion |->
        formatEventForOverlay(pickNextByStartTime(schedule.legion, nowMs), "legion"),
     nextHelltide |->
        formatEventForOverlay(pickNextByStartTime(schedule.helltide, nowMs), "helltide")]

\* one of the three projections throws: refreshEvents catches it
refreshThrows(schedule, nowMs) ==
    \/ formatThrows(pickNextByStartTime(schedule.world_boss, nowMs))
    \/ formatThrows(pickNextByStartTime(schedule.legion, nowMs))
    \/ formatThrows(pickNextByStartTime(schedule.helltide, nowMs))

\* the state document a refresh persists once the schedule has been fetched
refreshedState(file, state, schedule, nowMs) ==
    LET s == ensureBuildState(file, state)
        builds == readBuilds(file)
    IN  ("nowIso" :> nowMs)
        @@ ("events" :> nextEvents(schedule, nowMs))
        @@ ("builds" :> builds)
        @@ ("build" :> BuildOr(At(builds, s.currentBuildIndex), defaultBuild))
        @@ s

\* mutant: a failed refresh forgets the stored events
refreshFailedClears ==
    /\ Idle
    /\ bcast' = <<>>
    /\ wsFirst' = <<>>
    /\ stateFile' = [stateFile EXCEPT !.events = NoEvents]
    /\ UNCHANGED <<origin, panel, config, buildFile, clients, requests>>

\* refreshEvents returning null: nothing written, nothing sent
refreshFailed ==
    /\ Idle
    /\ bcast' = <<>>
    /\ wsFirst' = <<>>
    /\ UNCHANGED <<origin, panel, config, buildFile, stateFile, clients, requests>>

\* the timer tick (and the call at start): the fetch answered with schedule
RefreshTick(schedule, nowMs) ==
    /\ Idle
    /\ ~refreshThrows(schedule, nowMs)
    /\ buildFile' = buildFile
    /\ stateFile' = refreshedState(buildFile, readState, schedule, nowMs)
    /\ bcast' = <<broadcastState(buildFile', stateFile')>>
    /\ resp' = NoResponse
    /\ headers' = NoHeaders
    /\ wsFirst' = <<>>
    /\ effects' = <<Fx("fetch"), Fx("write")>> \o sendsFrom(clients, 1)
    /\ UNCHANGED <<origin, panel, config, clients, requests>>

\* the fetch failed: network error, non-success status or unparseable body
RefreshTickFailed ==
    /\ refreshFailed
    /\ resp' = NoResponse
    /\ headers' = NoHeaders
    /\ effects' = <<Fx("fetch")>>

\* the fetch succeeded and a projection threw
RefreshTickThrown(schedule, nowMs) ==
    /\ refreshThrows(schedule, nowMs)
    /\ refreshFailed
    /\ resp' = NoResponse
    /\ headers' = NoHeaders
    /\ effects' = <<Fx("fetch")>>

PostEventsRefresh(schedule, nowMs) ==
    LET state == refreshedState(buildFile, readState, schedule, nowMs)
    IN  /\ ~refreshThrows(schedule, nowMs)
        /\ CommitAfter(<<Fx("fetch")>>, "POST /events/refresh", buildFile, state,
                       [ok |-> TRUE, state |-> state])

refreshFailedBody == [ok |-> FALSE, error |-> "refresh failed"]

PostEventsRefreshFailed ==
    AnswerAfter(<<Fx("fetch")>>, "POST /events/refresh", 500, refreshFailedBody)

PostEventsRefreshThrown(schedule, nowMs) ==
    /\ refreshThrows(schedule, nowMs)
    /\ AnswerAfter(<<Fx("fetch")>>, "POST /events/refresh", 500, refreshFailedBody)

----------------------------------------------------------------------------
(* The counter increments with the position of the callback explicit: a    *)
(* request is accepted (pending), its handler reads state.json, then       *)
(* writes it, broadcasts and answers                                       *)

CounterKinds == {"deaths", "uniques"}

RequestArrive(r, kind) ==
    /\ requests[r].pc = "none"
    /\ requests' = [requests EXCEPT ![r] = [pc |-> "pending", kind |-> kind, state |-> <<>>]]
    /\ UNCHANGED <<origin, panel, config, buildFile, stateFile, resp, headers, bcast, wsFirst, clients, effects>>

\* mutant: a handler is dispatched while another one is between its read and
\* its write
CounterIncReadAnyTime(r) ==
    /\ requests[r].pc = "pending"
    /\ requests' = [requests EXCEPT ![r].pc = "read", ![r].state = <<ensureCounters(readState)>>]
    /\ UNCHANGED <<origin, panel, config, buildFile, stateFile, resp, headers, bcast, wsFirst, clients, effects>>

\* const state = ensureCounters(readJsonSafe(STATE_PATH, {}))
CounterIncRead(r) ==
    /\ Idle
    /\ requests[r].pc = "pending"
    /\ requests' = [requests EXCEPT ![r].pc = "read", ![r].state = <<ensureCounters(readState)>>]
    /\ UNCHANGED <<origin, panel, config, buildFile, stateFile, resp, headers, bcast, wsFirst, clients, effects>>

\* the rest of the handler: increment what was read, write, broadcast, answer
CounterIncWrite(r) ==
    LET kind == requests[r].kind
        state == [requests[r].state[1] EXCEPT !.counters[kind] = counterInc(@)]
    IN  /\ requests[r].pc = "read"
        /\ stateFile' = state
        /\ bcast' = <<broadcastState(buildFile, state)>>
        /\ resp' = [op |-> IF kind = "deaths" THEN "POST /counter/deaths/inc"
                           ELSE "POST /counter/uniques/inc",
                    status |-> 200,
                    body |-> IF kind = "deaths"
                             THEN [ok |-> TRUE, deaths |-> state.counters.deaths]
                             ELSE [ok |-> TRUE, uniques |-> state.counters.uniques]]
        /\ headers' = responseHeaders(resp'.op, origin)
        /\ wsFirst' = <<>>
        /\ effects' = <<Fx("write")>> \o sendsFrom(clients, 1) \o <<Fx("respond")>>
        /\ requests' = [requests EXCEPT ![r].pc = "done", ![r].state = <<>>]
        /\ UNCHANGED <<origin, panel, config, buildFile, clients>>

----------------------------------------------------------------------------
(* The panel page (panel.js).  A start time of an event projection is an    *)
(* Int (epoch seconds) or one of the values JsUndefined, JsNull, JsNaN,      *)
(* JsInfinity, JsText; Date.now() is given in whole seconds; the text of a   *)
(* countdown is a string.                                                    *)

JsNaN == [t |-> "nan", halves |-> 0]

\* the em-dash (U+2014), written in ASCII
EmDash == "--"

\* the values of a start time that are no finite number
NotFinite == {JsUndefined, JsNull, JsNaN, JsInfinity, JsText}

isFiniteNumber(v) == ToString(v) \notin {ToString(x) : x \in NotFinite}

\* !v: undefined, null, NaN and 0 are falsy
isFalsy(v) ==
    IF isFiniteNumber(v) THEN v = 0 ELSE v.t \in {"undefined", "null", "nan"}

\* mutant: nothing is padded
pad2None(n) == ToString(n)

\* String(n).padStart(2, '0')
pad2(n) == IF n < 10 THEN "0" \o ToString(n) ELSE ToString(n)

\* formatCountdown(targetTs) when Math.floor(Date.now() / 1000) is now
formatCountdown(targetTs, now) ==
    IF isFalsy(targetTs) \/ ~isFiniteNumber(targetTs) THEN EmDash
    ELSE LET diff == targetTs - now
             h == diff \div 3600
             m == (diff % 3600) \div 60
             sec == diff % 60
         IN  IF diff <= 0 THEN "0:00"
             ELSE IF h > 0 THEN ToString(h) \o ":" \o pad2(m) \o ":" \o pad2(sec)
             ELSE ToString(m) \o ":" \o pad2(sec)

\* ev.nextX?.startTs for ev = currentState.events || {}
startTsOf(state, key) ==
    IF "events" \notin DOMAIN state THEN JsUndefined
    ELSE IF state.events[key] = <<>> THEN JsUndefined
    ELSE state.events[key][1].startTs

\* updateCountdowns at the instant now (nothing before a state is known)
updateCountdowns(p, now) ==
    IF p.currentState = <<>> THEN p
    ELSE LET state == p.currentState[1]
         IN  [p EXCEPT !.tickedAt = <<now>>,
                       !.wbTime = formatCountdown(startTsOf(state, "nextWorldBoss"), now),
                       !.legTime = formatCountdown(startTsOf(state, "nextLegion"), now),
                       !.htTime = formatCountdown(startTsOf(state, "nextHelltide"), now)]

\* applyState: keep the state, render it, recompute the countdowns
applyState(p, state, now) ==
    updateCountdowns([p EXCEPT !.currentState = <<state>>], now)

\* setInterval(updateCountdowns, 1000)
PanelCountdownTick(now) ==
    /\ panel' = updateCountdowns(panel, now)
    /\ UNCHANGED <<serverVars, config>>

\* ws.onmessage; data is <<>> when JSON.parse throws on it and <<doc>> otherwise
onmessage(p, data, now) ==
    LET q == [p EXCEPT !.wsOk = TRUE, !.heard = "message"]
    IN  IF data = <<>> THEN q ELSE applyState(q, data[1], now)

\* a message of any content arrives
PanelWsMessage(data, now) ==
    /\ panel.socket = "open"
    /\ panel' = onmessage(panel, data, now)
    /\ UNCHANGED <<serverVars, config>>

\* wss.on("connection"): the server accepts the socket of the panel and
\* sends it the raw state.json
PanelWsAccepted ==
    /\ panel.socket = "open"
    /\ ~panel.accepted
    /\ panel' = [panel EXCEPT !.accepted = TRUE, !.inbox = Append(@, readState)]
    /\ UNCHANGED <<serverVars, config>>

\* the oldest message the server has sent arrives
PanelWsDeliver(now) ==
    /\ panel.socket = "open"
    /\ panel.inbox # <<>>
    /\ panel' = [onmessage(panel, <<Head(panel.inbox)>>, now) EXCEPT !.inbox = Tail(@)]
    /\ UNCHANGED <<serverVars, config>>

\* a broadcast reaches the socket of the panel when the server has accepted it
sentTo(p, doc) == IF p.accepted THEN [p EXCEPT !.inbox = Append(@, doc)] ELSE p

\* ws.onerror: the connection failed; its close event follows
PanelWsError ==
    /\ panel.socket = "open"
    /\ panel' = [panel EXCEPT !.wsOk = FALSE, !.heard = "error", !.socket = "failed"]
    /\ UNCHANGED <<serverVars, config>>

\* mutant: a closed connection leaves the channel marked OK
PanelWsCloseKeepsOk ==
    /\ panel.socket \in {"open", "failed"}
    /\ panel' = [panel EXCEPT !.heard = "close", !.socket = "closed"]
    /\ UNCHANGED <<serverVars, config>>

\* ws.onclose
PanelWsClose ==
    /\ panel.socket \in {"open", "failed"}
    /\ panel' = [panel EXCEPT !.wsOk = FALSE, !.heard = "close", !.socket = "closed"]
    /\ UNCHANGED <<serverVars, config>>

\* fetches of /state the panel has in flight at most
MaxFetches == 2

\* the polling timer: nothing while the channel is marked OK, else a fetch
PanelPollTick ==
    /\ panel.wsOk \/ panel.fetching + Len(panel.responses) < MaxFetches
    /\ panel' = LET p == [panel EXCEPT !.pollTicks = (@ + 1) % 2]
                IN  IF p.wsOk THEN [p EXCEPT !.poll = "skipped"]
                    ELSE [p EXCEPT !.poll = "fetched", !.fetching = @ + 1]
    /\ UNCHANGED <<serverVars, config>>

RemoveAt(seq, i) == SubSeq(seq, 1, i - 1) \o SubSeq(seq, i + 1, Len(seq))

\* the server answers a fetch of /state of the panel
PanelFetchServed ==
    /\ Idle
    /\ panel.fetching > 0
    /\ panel' = [panel EXCEPT
                    !.fetching = @ - 1,
                    !.responses = Append(@, ensureBuildState(buildFile, readState))]
    /\ UNCHANGED <<serverVars, config>>

\* a fetch of /state resolves: an answer of GET /state arrives and is applied
\* (answers to different fetches arrive in any order), or the fetch fails by
\* the network or with an answer that is no JSON, which is ignored
PanelFetchResolved(ok, now) ==
    /\ IF ok THEN panel.responses # <<>>
       ELSE panel.fetching + Len(panel.responses) > 0
    /\ IF ok
       THEN \E i \in DOMAIN panel.responses :
               panel' = applyState([panel EXCEPT !.responses = RemoveAt(@, i)],
                                   panel.responses[i], now)
       ELSE panel' = IF panel.responses # <<>>
                     THEN [panel EXCEPT !.responses = Tail(@)]
                     ELSE [panel EXCEPT !.fetching = @ - 1]
    /\ UNCHANGED <<serverVars, config>>

\* clicks on next and prev of the panel at most
MaxNavs == 1

\* nav(dir): the server handles POST /build/next or /build/prev, and when its
\* answer has arrived the panel fetches /state
PanelNav(dir) ==
    /\ panel.navs < MaxNavs
    /\ panel.fetching + Len(panel.responses) < MaxFetches
    /\ LET state == ensureBuildState(buildFile, readState)
           total == Len(state.builds)
           newState == moved(IF dir = "next" THEN nextIndex(state.currentBuildIndex, total)
                             ELSE prevIndex(state.currentBuildIndex, total))
       IN  /\ CommitWrites(<<>>, IF dir = "next" THEN "POST /build/next"
                                 ELSE "POST /build/prev",
                           buildFile, newState, navBody(newState, total))
           /\ panel' = [sentTo(panel, broadcastState(buildFile, newState)) EXCEPT
                           !.navs = @ + 1, !.fetching = @ + 1]
    /\ UNCHANGED config

\* POST /counter/deaths/inc from any client, its broadcast reaching the panel
PanelSeesDeathsInc ==
    /\ ensureCounters(readState).counters.deaths < MaxCount
    /\ LET state == [ensureCounters(readState) EXCEPT !.counters.deaths = counterInc(@)]
       IN  /\ CommitWrites(<<>>, "POST /counter/deaths/inc", buildFile, state,
                           [ok |-> TRUE, deaths |-> state.counters.deaths])
           /\ panel' = sentTo(panel, broadcastState(buildFile, state))
    /\ UNCHANGED config

----------------------------------------------------------------------------
(* A configuration page (config.js: the admin page and the live             *)
(* configuration page run the same code).  Instants are in ms; the clock     *)
(* advances by ClockStepMs between handlers, and a timer runs when it is due. *)

\* the time a notice stays
NoticeMs == 3000

\* the time the delete button stays armed
ArmedMs == 5000

ClockStepMs == NoticeMs \div 3

\* the clock of the page stops here
MaxClockMs == 8 * ClockStepMs

\* delete clicks on a page at most
MaxClicks == 3

\* notify(message): the notice shows the message, and a timer is started
notify(pg, message) ==
    [pg EXCEPT !.notice = [text |-> message, at |-> pg.now],
               !.timers = @ \cup {[message |-> message, due |-> pg.now + NoticeMs]}]

\* time passes; a timer that is due runs first
PageTick ==
    /\ config.now < MaxClockMs
    /\ \A t \in config.timers : t.due > config.now
    /\ config' = [config EXCEPT !.now = @ + ClockStepMs]
    /\ UNCHANGED <<serverVars, panel>>

\* the callback of a notify timer: it clears the notice when the notice
\* still reads the message of its call
NoticeTimer(t) ==
    /\ t \in config.timers
    /\ t.due <= config.now
    /\ config' = [config EXCEPT !.timers = @ \ {t},
                            !.notice = IF @.text = t.message
                                       THEN [text |-> "", at |-> 0] ELSE @]
    /\ UNCHANGED <<serverVars, panel>>

\* a handler of the page that ends in notify(message)
PageNotify(message) ==
    /\ config' = notify(config, message)
    /\ UNCHANGED <<serverVars, panel>>

\* the delete button is clicked: the handler starts loading the state
DeleteClick ==
    /\ Len(config.clicks) + Len(config.log) < MaxClicks
    /\ config' = [config EXCEPT !.clicks = Append(@, config.now)]
    /\ UNCHANGED <<serverVars, panel>>

ArmMessage(current, total) ==
    "Clique une 2e fois pour confirmer (5s) build #" \o ToString(current + 1)
        \o "/" \o ToString(total) \o "."

\* mutant: an armed button never expires
armExpiredNever(now, until) == until = 0

\* now > deleteArmedUntil
armExpired(now, until) == now > until

\* the state a delete handler waits for has arrived (GET /state answers with
\* a catalog that is never empty): the handler arms the button, or disarms it
\* and sends the delete of the cursor
DeleteLoaded(i) ==
    /\ i \in DOMAIN config.clicks
    /\ LET state == ensureBuildState(buildFile, readState)
           current == state.currentBuildIndex
           total == Len(state.builds)
           pg == [config EXCEPT !.clicks = RemoveAt(@, i)]
           entry(did) == [clicked |-> config.clicks[i], at |-> config.now, did |-> did,
                          current |-> current, build |-> state.build]
       IN  config' = IF armExpired(pg.now, pg.deleteArmedUntil)
                   THEN notify([pg EXCEPT !.deleteArmedUntil = pg.now + ArmedMs,
                                          !.log = Append(@, entry("arm"))],
                               ArmMessage(current, total))
                   ELSE [pg EXCEPT !.deleteArmedUntil = 0,
                                   !.log = Append(@, entry("delete")),
                                   !.posted = Append(@, current)]
    /\ UNCHANGED <<serverVars, panel>>

\* the load of the state failed: loadState throws and the handler ends
DeleteLoadFailed(i) ==
    /\ i \in DOMAIN config.clicks
    /\ config' = [config EXCEPT !.clicks = RemoveAt(@, i),
                            !.log = Append(@, [clicked |-> config.clicks[i],
                                               at |-> config.now, did |-> "none",
                                               current |-> 0, build |-> defaultBuild])]
    /\ UNCHANGED <<serverVars, panel>>

\* the answer to a delete has arrived (and, when it is ok, the form was
\* reloaded)
DeleteAnswered(ok) ==
    /\ config.posted # <<>>
    /\ config' = notify([config EXCEPT !.posted = Tail(@),
                                       !.served = IF @ > 0 THEN @ - 1 ELSE 0],
                      IF ok THEN "Build supprimee." ELSE "Suppression KO")
    /\ UNCHANGED <<serverVars, panel>>

\* the server handles the oldest delete of the page it has not handled yet
DeleteServed ==
    /\ config.served < Len(config.posted)
    /\ LET d == deleted(JsNumber(2 * config.posted[config.served + 1]))
       IN  /\ CommitWrites(<<>>, "POST /build/delete", d.file, d.state, d.body)
           /\ config' = [config EXCEPT !.served = @ + 1,
                                       !.removed = Append(@, d.removed)]
    /\ UNCHANGED panel

----------------------------------------------------------------------------
(* refreshEvents with the position of the callback explicit: the fetch of  *)
(* the schedule is sent, and when it has answered the rest runs in one go. *)
(* A refresh in flight keeps, for comparison, the state.json of the moment *)
(* its fetch was sent.                                                     *)

RefreshStart(r) ==
    /\ Idle
    /\ requests[r].pc \in {"none", "refreshed"}
    /\ requests' = [requests EXCEPT
                        ![r] = [pc |-> "fetching", kind |-> "refresh", state |-> <<readState>>]]
    /\ effects' = <<Fx("fetch")>>
    /\ UNCHANGED <<origin, panel, config, buildFile, stateFile, resp, headers, bcast, wsFirst, clients>>

\* fs.existsSync on build.json and on state.json
buildsExist(file) ==
    IF Len(file) = 1 /\ "json" \in DOMAIN file[1] THEN file[1].json # "missing" ELSE TRUE

stateExists(state) ==
    IF "json" \in DOMAIN state THEN state.json # "missing" ELSE TRUE

\* the build.json ensureDirs leaves
ensureDirsBuilds(file) == IF buildsExist(file) THEN file ELSE <<defaultBuild>>

\* the document ensureDirs writes when there is no state.json
firstState(file, nowMs) ==
    ensureBuildState(file,
        [nowIso |-> nowMs,
         timezone |-> "Europe/Paris",
         counters |-> [deaths |-> 0, uniques |-> 0],
         objectives |-> InitialObjectives,
         events |-> NoEvents])

\* mutant: the start writes a fresh state.json whether or not there is one
ensureDirsStateAlways(file, state, nowMs) == firstState(file, nowMs)

\* the state.json ensureDirs leaves
ensureDirsState(file, state, nowMs) ==
    IF stateExists(state) THEN state ELSE firstState(file, nowMs)

\* the process is started again (lost: state.json was removed while it was
\* down): connections and the requests in flight are gone, ensureDirs runs,
\* and the first refresh sends its fetch (it keeps, for comparison, the
\* state.json of before)
Restart(nowMs, lost) ==
    /\ buildFile' = ensureDirsBuilds(buildFile)
    /\ stateFile' = ensureDirsState(buildFile',
                                    IF lost THEN Shape("missing") ELSE stateFile, nowMs)
    /\ clients' = [c \in ClientIds |-> "absent"]
    /\ requests' = [r \in RequestIds |->
                        IF r = 1
                        THEN [pc |-> "fetching",
                              kind |-> IF lost THEN "restart lost" ELSE "restart",
                              state |-> <<stateFile>>]
                        ELSE NoRequest]
    /\ resp' = NoResponse
    /\ headers' = NoHeaders
    /\ bcast' = <<>>
    /\ wsFirst' = <<>>
    /\ effects' = <<Fx("fetch")>>
    /\ UNCHANGED <<origin, panel, config>>

\* mutant: the refresh works on the state of the moment its fetch was sent
refreshReadAtStart(r) == requests[r].state[1]

\* readJsonSafe(STATE_PATH, {}) once the schedule has been fetched and projected
refreshRead(r) == readState

\* the fetch answered with schedule: the state is read, completed, written
\* and broadcast
RefreshFetched(r, schedule, nowMs) ==
    /\ Idle
    /\ requests[r].pc = "fetching"
    /\ ~refreshThrows(schedule, nowMs)
    /\ buildFile' = buildFile
    /\ stateFile' = refreshedState(buildFile, refreshRead(r), schedule, nowMs)
    /\ bcast' = <<broadcastState(buildFile', stateFile')>>
    /\ resp' = NoResponse
    /\ headers' = NoHeaders
    /\ wsFirst' = <<>>
    /\ effects' = <<Fx("write")>> \o sendsFrom(clients, 1)
    /\ requests' = [requests EXCEPT ![r].pc = "refreshed"]
    /\ UNCHANGED <<origin, panel, config, clients>>

\* the fetch failed, or a projection threw: nothing is written
RefreshFetchFailed(r) ==
    /\ Idle
    /\ requests[r].pc = "fetching"
    /\ requests' = [requests EXCEPT ![r] = NoRequest]
    /\ effects' = <<>>
    /\ UNCHANGED <<origin, panel, config, buildFile, stateFile, resp, headers, bcast, wsFirst, clients>>

----------------------------------------------------------------------------
(* Inputs *)

Absent == <<>>
Given(s) == <<s>>

Body(source, title, author, updatedOn, url) ==
    [source |-> source, title |-> title, author |-> author,
     updatedOn |-> updatedOn, url |-> url]

EmptyBody == Body(Absent, Absent, Absent, Absent, Absent)
TitleBody == Body(Absent, Given(<<WS, "T", WS>>), Absent, Absent, Absent)
AuthorBody == Body(Absent, Absent, Given(<<"X">>), Absent, Absent)
BlankBody == Body(Given(<<WS>>), Given(<<WS>>), Absent, Absent, Absent)
SourceBody == Body(Given(<<"guide">>), Given(<<"T2">>), Absent, Absent, Absent)
DateUrlBody == Body(Absent, Absent, Absent, Given(<<"U">>), Given(<<WS, "u">>))

\* index values: missing, null, a non-numeral, Infinity, -1, 0, 1, 1.5, 2 and
\* one past the largest catalog
IndexValues ==
    {JsUndefined, JsNull, JsText, JsInfinity}
        \cup {JsNumber(h) : h \in {-2, 0, 2, 3, 4, 2 * MaxBuilds + 2}}

PlainQuery == <<MobalyticsPrefix, "x">>
PaddedQuery == <<WS, MobalyticsPrefix, "x", "%20">>
ForeignQuery == <<"http://example.org/">>
EmptyQuery == <<>>
\* the prefix behind an encoded space, and urls holding a bare percent sign
EncodedLeadQuery == <<"%20", MobalyticsPrefix, "x">>
PercentQuery == <<"http://example.org/100", "%">>
PercentGuideQuery == <<MobalyticsPrefix, "x", "%">>
ImportQueries ==
    {PlainQuery, PaddedQuery, ForeignQuery, EmptyQuery, EncodedLeadQuery,
     PercentQuery, PercentGuideQuery}

\* importer failures: no connection (0) or the HTTP status of the page
ImportFailures == {0, 404, 503}

GuidePage ==
    [h1 |-> <<WS, "M">>, author |-> <<>>, updatedOn |-> <<>>,
     highlights |-> << <<"Helm:", WS, "Crown">> >>]

Iso(ms) == [t |-> "iso", ms |-> ms]
NotADate == [t |-> "text", ms |-> 0]
EpochNumber(ms) == [t |-> "number", ms |-> ms]

Entry(startTime, boss, zone) == [startTime |-> startTime, boss |-> boss, zone |-> zone]
Plain(startTime) == Entry(startTime, EmptyStr, <<>>)

\* instants of a refresh, in milliseconds
LaterMs == StartMs + 1000
Times == {-1500, StartMs, LaterMs}

\* a schedule whose three keys are missing
NoSchedule == [world_boss |-> <<>>, legion |-> <<>>, helltide |-> <<>>]

\* a world boss ahead of every instant in Times
SomeSchedule ==
    [world_boss |-> << <<Entry(Iso(2500), <<"Ashava">>, << <<"Kehjistan">> >>)>> >>,
     legion |-> << <<>> >>,
     helltide |-> <<>>]

\* lists of entries: key missing, empty, past and present and future out of
\* order, an entry that is no date before two entries starting together,
\* times before 1970, a numeric start time
MissingList == <<>>
EmptyList == << <<>> >>
MixedList == << <<Plain(Iso(2500)), Plain(Iso(1000)), Plain(Iso(1500)), Plain(Iso(0))>> >>
TiedList ==
    << <<Plain(NotADate), Entry(Iso(1500), <<"A">>, <<>>), Entry(Iso(1500), <<"B">>, <<>>)>> >>
EarlyList == << <<Plain(Iso(-1500)), Plain(Iso(-500)), Plain(Iso(1000))>> >>
NumericList == << <<Plain(EpochNumber(1500)), Plain(Iso(2500))>> >>
ShortList == << <<Plain(Iso(-500)), Plain(Iso(1000))>> >>
PairList == << <<Plain(Iso(1000)), Plain(Iso(1500))>> >>

Schedule(worldBoss, legion, helltide) ==
    [world_boss |-> worldBoss, legion |-> legion, helltide |-> helltide]

Schedules ==
    {Schedule(MissingList, MissingList, EmptyList),
     Schedule(EmptyList, ShortList, PairList),
     Schedule(MixedList, MissingList, PairList),
     Schedule(TiedList, ShortList, EmptyList),
     Schedule(EarlyList, ShortList, PairList),
     Schedule(NumericList, MissingList, EmptyList),
     Schedule(MixedList, EarlyList, NumericList)}

JsStr(s) == [t |-> "string", s |-> s, n |-> 0]
JsInt(n) == [t |-> "number", s |-> <<>>, n |-> n]

ObjectiveLists ==
    { <<>>, <<JsStr(<<"A">>), JsStr(<<"B">>)>>, <<JsStr(<<"C">>)>>, <<JsInt(5)>> }

\* objectives values that are no array: key missing, null, a string, an object
NotArrays == {[t |-> "undefined"], [t |-> "null"], [t |-> "string"], [t |-> "object"]}

\* Origin headers: the extension's pages (in either case), hosts that only
\* resemble them, the development origins and another local port
TwitchOrigin == <<"https://", "abc123", ".ext-twitch.tv">>
UpperOrigin == <<"https://", "ABC123", ".ext-twitch.tv">>
HyphenOrigin == <<"https://", "a", "-", "b", ".ext-twitch.tv">>
EmptyIdOrigin == <<"https://", ".ext-twitch.tv">>
HttpOrigin == <<"http://", "abc123", ".ext-twitch.tv">>
SuffixOrigin == <<"https://", "abc123", ".ext-twitch.tv", ".evil.com">>
ForeignOrigin == <<"https://", "evil", ".com">>
OtherLocalOrigin == <<"http://localhost:8080">>

Origins ==
    {EmptyStr, TwitchOrigin, UpperOrigin, HyphenOrigin, EmptyIdOrigin, HttpOrigin,
     SuffixOrigin, ForeignOrigin, OtherLocalOrigin}
        \cup EXTRA_ALLOWED_ORIGINS

\* messages of the handlers of a configuration page
NoticeMessages == {"Objectifs enregistres !", "Build mise a jour !"}

\* instants at which the panel reads its clock, in epoch seconds
NowSeconds == {5000, 5061}

\* a projection that starts at startTs
Projection(startTs) ==
    <<[type |-> "world_boss", title |-> <<"World Boss">>, zone |-> EmptyStr,
       startTime |-> Iso(0), startTs |-> startTs]>>

PanelDoc(wb, leg, ht) ==
    [events |-> [nextWorldBoss |-> wb, nextLegion |-> leg, nextHelltide |-> ht]]

\* realtime messages: unparseable, a document without events, and documents
\* whose start times lie before, at and after the instants of NowSeconds, by
\* seconds, minutes and hours, or are no finite number
PanelMessages ==
    << <<>>,
      <<[timezone |-> "Europe/Paris"]>>,
      <<PanelDoc(Projection(8661), Projection(5061), Projection(5000))>>,
      <<PanelDoc(Projection(8600), Projection(8599), Projection(5001))>>,
      <<PanelDoc(Projection(41000), Projection(5600), Projection(4000))>>,
      <<PanelDoc(Projection(0), Projection(-5), <<>>)>>,
      <<PanelDoc(Projection(JsNull), Projection(JsNaN), Projection(JsInfinity))>>,
      <<PanelDoc(Projection(JsText), Projection(5059), Projection(12325))>> >>

----------------------------------------------------------------------------
(* The program: any handler may run next, with any request *)

Counter ==
    \/ CounterDeathsInc
    \/ CounterDeathsDec
    \/ CounterUniquesInc
    \/ CounterUniquesDec
    \/ CounterDeathsReset
    \/ CounterUniquesReset
    \/ CounterReset

Next ==
    \/ \E c \in ClientIds : WsConnect(c)
    \/ \E c \in ClientIds : \E to \in {"closing", "absent"} : WsLeave(c, to)
    \/ \E now \in Times : GetHealth(now)
    \/ Preflight
    \/ GetState
    \/ Counter
    \/ \E body \in {EmptyBody, TitleBody, AuthorBody, SourceBody, DateUrlBody} :
          PostBuild(body)
    \/ \E q \in ImportQueries : \E answered \in BOOLEAN : ImportMalformed(q, answered)
    \/ \E q \in ImportQueries : ImportRejected(q)
    \/ \E q \in ImportQueries : \E failure \in ImportFailures : ImportFailed(q, failure)
    \/ \E q \in ImportQueries : ImportMobalytics(q, GuidePage)
    \/ \E index \in IndexValues :
          \E body \in {EmptyBody, TitleBody, AuthorBody, BlankBody, SourceBody,
                       DateUrlBody} : BuildUpdate(index, body)
    \/ BuildNext
    \/ BuildPrev
    \/ \E index \in IndexValues : BuildSelect(index)
    \/ \E index \in IndexValues : BuildSelectRejected(index)
    \/ \E index \in IndexValues : BuildDelete(index)
    \/ \E items \in ObjectiveLists : PostObjectives(items)
    \/ \E v \in NotArrays : PostObjectivesRejected(v)
    \/ \E items \in ObjectiveLists : PostObjectivesThrown(items)
    \/ \E schedule \in Schedules : \E now \in Times : RefreshTick(schedule, now)
    \/ RefreshTickFailed
    \/ \E schedule \in Schedules : \E now \in Times : RefreshTickThrown(schedule, now)
    \/ \E schedule \in Schedules : \E now \in Times : PostEventsRefresh(schedule, now)
    \/ PostEventsRefreshFailed
    \/ \E schedule \in Schedules : \E now \in Times : PostEventsRefreshThrown(schedule, now)
    \/ \E r \in RequestIds : \E kind \in CounterKinds : RequestArrive(r, kind)
    \/ \E r \in RequestIds : CounterIncRead(r)
    \/ \E r \in RequestIds : CounterIncWrite(r)
    \/ \E now \in NowSeconds : PanelCountdownTick(now)
    \/ \E i \in DOMAIN PanelMessages : \E now \in NowSeconds :
            PanelWsMessage(PanelMessages[i], now)
    \/ PanelWsError
    \/ PanelWsClose
    \/ PanelPollTick
    \/ \E ok \in BOOLEAN : \E now \in NowSeconds : PanelFetchResolved(ok, now)
    \/ PanelFetchServed
    \/ PanelWsAccepted
    \/ \E now \in NowSeconds : PanelWsDeliver(now)
    \/ \E dir \in {"next", "prev"} : PanelNav(dir)
    \/ PanelSeesDeathsInc
    \/ PageTick
    \/ \E t \in config.timers : NoticeTimer(t)
    \/ \E message \in NoticeMessages : PageNotify(message)
    \/ DeleteClick
    \/ \E i \in 1..MaxClicks : DeleteLoaded(i)
    \/ \E i \in 1..MaxClicks : DeleteLoadFailed(i)
    \/ \E ok \in BOOLEAN : DeleteAnswered(ok)
    \/ DeleteServed
    \/ \E r \in RequestIds : RefreshStart(r)
    \/ \E r \in RequestIds : \E schedule \in Schedules : \E now \in Times :
            RefreshFetched(r, schedule, now)
    \/ \E r \in RequestIds : RefreshFetchFailed(r)
    \/ \E now \in Times : \E lost \in BOOLEAN : Restart(now, lost)

Spec == Init /\ [][Next]_vars

----------------------------------------------------------------------------
(* The build catalog under creation, import, update, navigation, selection *)
(* and deletion, read through GET /state and a new realtime connection,    *)
(* with a counter call and a refresh in between                            *)

NextCatalog ==
    \/ WsConnect(1)
    \/ WsLeave(1, "absent")
    \/ GetState
    \/ CounterDeathsReset
    \/ \E body \in {EmptyBody, TitleBody, AuthorBody} : PostBuild(body)
    \/ ImportMobalytics(PlainQuery, GuidePage)
    \/ \E index \in {JsUndefined, JsNumber(0), JsNumber(2 * MaxBuilds + 2)} :
          \E body \in {AuthorBody, BlankBody} : BuildUpdate(index, body)
    \/ BuildNext
    \/ BuildPrev
    \/ \E index \in {JsNumber(0), JsNumber(3)} : BuildSelect(index)
    \/ \E index \in {JsUndefined, JsNumber(0), JsNumber(2)} : BuildDelete(index)
    \/ RefreshTick(NoSchedule, StartMs)

SpecCatalog == Init /\ [][NextCatalog]_vars

----------------------------------------------------------------------------
(* The counters, with objectives, events, catalog and cursor changing in   *)
(* between                                                                 *)

NextCounter ==
    \/ Counter
    \/ GetState
    \/ PostBuild(TitleBody)
    \/ BuildNext
    \/ PostObjectives(<<JsStr(<<"C">>)>>)
    \/ RefreshTick(SomeSchedule, LaterMs)

SpecCounter == Init /\ [][NextCounter]_vars

----------------------------------------------------------------------------
(* The cursor: next, prev and select over catalogs of distinct builds,     *)
(* including after an update and a deletion that shorten the catalog       *)

NextNav ==
    \/ GetState
    \/ PostBuild(TitleBody)
    \/ ImportMobalytics(PlainQuery, GuidePage)
    \/ BuildUpdate(JsUndefined, BlankBody)
    \/ BuildDelete(JsUndefined)
    \/ BuildNext
    \/ BuildPrev
    \/ \E index \in IndexValues : BuildSelect(index)
    \/ \E index \in IndexValues : BuildSelectRejected(index)
    \/ CounterDeathsInc
    \/ PostObjectives(<<JsStr(<<"C">>)>>)

SpecNav == Init /\ [][NextNav]_vars

----------------------------------------------------------------------------
(* Updates: manual and imported builds (the imported url ends in an        *)
(* encoded space), updated by index or under the cursor, with bodies that  *)
(* between them give and omit every field                                  *)

AuthorDateBody == Body(Absent, Absent, Given(<<"X">>), Given(<<"U">>), Absent)
BlankUrlBody == Body(Given(<<WS>>), Given(<<WS>>), Absent, Absent, Given(<<WS, "u">>))

UpdateBodies == {EmptyBody, AuthorDateBody, BlankUrlBody}

UpdateIndexes ==
    {JsUndefined, JsNull, JsNumber(0), JsNumber(3), JsNumber(2 * MaxBuilds + 2)}

NextUpdate ==
    \/ PostBuild(TitleBody)
    \/ ImportMobalytics(PaddedQuery, GuidePage)
    \/ BuildNext
    \/ \E index \in UpdateIndexes :
          \E body \in UpdateBodies : BuildUpdate(index, body)

SpecUpdate == Init /\ [][NextUpdate]_vars

----------------------------------------------------------------------------
(* Deletion: catalogs of distinct builds, deleted by index or under the    *)
(* cursor, with the cursor moved in between                                *)

DeleteIndexes ==
    {JsUndefined, JsNull, JsText}
        \cup {JsNumber(h) : h \in {-2, 0, 3, 4, 2 * MaxBuilds + 2}}

NextDelete ==
    \/ PostBuild(TitleBody)
    \/ PostBuild(SourceBody)
    \/ ImportMobalytics(PlainQuery, GuidePage)
    \/ BuildNext
    \/ BuildPrev
    \/ BuildUpdate(JsUndefined, BlankBody)
    \/ \E index \in DeleteIndexes : BuildDelete(index)

SpecDelete == Init /\ [][NextDelete]_vars

----------------------------------------------------------------------------
(* Objectives: lists saved over one another and rejected bodies, with the  *)
(* counters, the catalog, the cursor and the events changing in between    *)

NextObjectives ==
    \/ \E items \in ObjectiveLists : PostObjectives(items)
    \/ \E v \in NotArrays : PostObjectivesRejected(v)
    \/ GetState
    \/ CounterDeathsInc
    \/ PostBuild(TitleBody)
    \/ BuildNext
    \/ RefreshTick(SomeSchedule, LaterMs)

SpecObjectives == Init /\ [][NextObjectives]_vars

----------------------------------------------------------------------------
(* Import: urls that are foreign, padded, encoded or malformed, importer   *)
(* failures and successes, with a realtime client connected                *)

NextImport ==
    \/ \E q \in ImportQueries : \E answered \in BOOLEAN : ImportMalformed(q, answered)
    \/ \E q \in ImportQueries : ImportRejected(q)
    \/ \E q \in ImportQueries : \E failure \in ImportFailures : ImportFailed(q, failure)
    \/ \E q \in ImportQueries : ImportMobalytics(q, GuidePage)
    \/ PostBuild(TitleBody)
    \/ BuildNext
    \/ CounterDeathsInc
    \/ WsConnect(1)

SpecImport == Init /\ [][NextImport]_vars

----------------------------------------------------------------------------
(* Event refresh: the timer and the manual refresh over schedules and      *)
(* instants, succeeding and failing, with a realtime client connected      *)

NextEvents ==
    \/ \E schedule \in Schedules : \E now \in Times : RefreshTick(schedule, now)
    \/ RefreshTickFailed
    \/ \E schedule \in Schedules : \E now \in Times : RefreshTickThrown(schedule, now)
    \/ \E schedule \in Schedules : \E now \in Times : PostEventsRefresh(schedule, now)
    \/ PostEventsRefreshFailed
    \/ \E schedule \in Schedules : \E now \in Times :
          PostEventsRefreshThrown(schedule, now)
    \/ WsConnect(1)
    \/ CounterDeathsInc

SpecEvents == Init /\ [][NextEvents]_vars

----------------------------------------------------------------------------
(* The realtime channel: clients connecting, closing and leaving while     *)
(* requests of every kind are served and rejected and the timer ticks      *)

NextRealtime ==
    \/ \E c \in ClientIds : WsConnect(c)
    \/ \E c \in ClientIds : \E to \in {"closing", "absent"} : WsLeave(c, to)
    \/ CounterDeathsInc
    \/ ImportMobalytics(PlainQuery, GuidePage)
    \/ BuildNext
    \/ BuildDelete(JsUndefined)
    \/ PostObjectives(<<JsStr(<<"C">>)>>)
    \/ RefreshTick(SomeSchedule, LaterMs)
    \/ PostEventsRefresh(NoSchedule, LaterMs)
    \/ BuildSelectRejected(JsText)
    \/ PostObjectivesRejected([t |-> "undefined"])
    \/ ImportRejected(ForeignQuery)

SpecRealtime == Init /\ [][NextRealtime]_vars

----------------------------------------------------------------------------
(* Counter increments in flight together *)

NextConcurrent ==
    \/ \E r \in RequestIds : \E kind \in CounterKinds : RequestArrive(r, kind)
    \/ \E r \in RequestIds : CounterIncRead(r)
    \/ \E r \in RequestIds : CounterIncWrite(r)

SpecConcurrent == Init /\ [][NextConcurrent]_vars

----------------------------------------------------------------------------
(* The files as a handler may find them: build.json missing, unparseable,  *)
(* holding null, an empty list, null entries, one to three builds or        *)
(* placeholder entries among or instead of builds;                          *)
(* state.json missing, unparseable, holding null, a number, {} or an       *)
(* object whose counters or cursor are missing or of another type          *)

TitledBuild == buildOfBody(TitleBody)
SourcedBuild == buildOfBody(SourceBody)
ImportedBuild == importFromMobalytics(queryUrl(PlainQuery), GuidePage)

FoundCatalogs ==
    { <<defaultBuild>>, <<TitledBuild, SourcedBuild>>,
      <<TitledBuild, SourcedBuild, ImportedBuild>>,
      <<defaultBuild, TitledBuild>>, <<TitledBuild, defaultBuild, SourcedBuild>>,
      <<defaultBuild, defaultBuild>>,
      <<>>, <<NullEntry>>, <<NullEntry, NullEntry>>,
      NotAList("missing"), NotAList("unparseable"), NotAList("null") }

\* the state document of the first start with currentBuildIndex holding c
WithCursor(c) == [InitialState EXCEPT !.currentBuildIndex = c]

\* the same document without the key currentBuildIndex
WithoutCursor ==
    [k \in DOMAIN InitialState \ {"currentBuildIndex"} |-> InitialState[k]]

InitFound ==
    /\ buildFile \in FoundCatalogs
    /\ \/ \E c \in -1 .. MaxBuilds : stateFile = WithCursor(c)
       \/ stateFile = WithCursor(JsNumber(1))
       \/ stateFile = WithCursor(JsNumber(3))
       \/ stateFile = WithCursor(JsText)
       \/ stateFile = WithCursor(JsNull)
       \/ stateFile = WithoutCursor
       \/ stateFile = Shape("missing")
       \/ stateFile = Shape("unparseable")
       \/ stateFile = Shape("null")
       \/ stateFile = Shape("number")
       \/ stateFile = EmptyObject
       \/ stateFile = [counters |-> Shape("string")]
       \/ stateFile = [counters |-> [deaths |-> 1]]
    /\ origin = EmptyStr
    /\ InitServer
    /\ panel = PanelLoaded(FALSE, FALSE)
    /\ config = PageLoaded

NextFound ==
    \/ GetState
    \/ Counter
    \/ BuildNext
    \/ BuildPrev
    \/ BuildSelect(JsNumber(2))
    \/ PostObjectives(<<JsStr(<<"C">>)>>)
    \/ PostObjectivesThrown(<<JsStr(<<"C">>)>>)

SpecFound == InitFound /\ [][NextFound]_vars

----------------------------------------------------------------------------
(* Response headers: callers of every origin, every kind of route, answers *)
(* of every status                                                         *)

InitHeaders ==
    /\ buildFile = <<defaultBuild>>
    /\ stateFile = InitialState
    /\ origin \in Origins
    /\ InitServer
    /\ panel = PanelLoaded(FALSE, FALSE)
    /\ config = PageLoaded

NextHeaders ==
    \/ GetHealth(StartMs)
    \/ Preflight
    \/ GetState
    \/ CounterDeathsReset
    \/ CounterReset
    \/ PostBuild(TitleBody)
    \/ BuildNext
    \/ BuildSelectRejected(JsText)
    \/ BuildDelete(JsUndefined)
    \/ PostObjectives(<<JsStr(<<"C">>)>>)
    \/ PostObjectivesRejected([t |-> "undefined"])
    \/ PostEventsRefresh(NoSchedule, StartMs)
    \/ PostEventsRefreshFailed
    \/ ImportRejected(ForeignQuery)
    \/ ImportFailed(PlainQuery, 404)

SpecHeaders == InitHeaders /\ [][NextHeaders]_vars

----------------------------------------------------------------------------
(* The panel page: hosted or not, its socket opening, hearing messages,    *)
(* failing and closing, the polling and countdown timers, while the state  *)
(* on the server changes                                                   *)

InitPanel ==
    /\ buildFile = <<defaultBuild>>
    /\ stateFile = InitialState
    /\ origin = EmptyStr
    /\ InitServer
    /\ \E hosted \in BOOLEAN : \E threw \in BOOLEAN : panel = PanelLoaded(hosted, threw)
    /\ config = PageLoaded

NextPanel ==
    \/ \E now \in NowSeconds : PanelCountdownTick(now)
    \/ \E i \in DOMAIN PanelMessages : \E now \in NowSeconds :
            PanelWsMessage(PanelMessages[i], now)
    \/ PanelWsError
    \/ PanelWsClose
    \/ PanelPollTick
    \/ \E ok \in BOOLEAN : \E now \in NowSeconds : PanelFetchResolved(ok, now)
    \/ PanelFetchServed
    \/ RefreshTick(SomeSchedule, LaterMs)

SpecPanel == InitPanel /\ [][NextPanel]_vars

----------------------------------------------------------------------------
(* The delete button of a configuration page: clicks, loads that arrive in *)
(* any order or fail, answers, and the notices and timers they start       *)

InitPage ==
    /\ buildFile = <<TitledBuild, SourcedBuild>>
    /\ stateFile = InitialState
    /\ origin = EmptyStr
    /\ InitServer
    /\ panel = PanelLoaded(FALSE, FALSE)
    /\ config = PageLoaded

NextConfirm ==
    \/ PageTick
    \/ \E t \in config.timers : NoticeTimer(t)
    \/ DeleteClick
    \/ \E i \in 1..MaxClicks : DeleteLoaded(i)
    \/ \E i \in 1..MaxClicks : DeleteLoadFailed(i)
    \/ \E ok \in BOOLEAN : DeleteAnswered(ok)

SpecConfirm == InitPage /\ [][NextConfirm]_vars

(* The notice of a configuration page: handlers that notify, and timers *)

NextNotice ==
    \/ PageTick
    \/ \E t \in config.timers : NoticeTimer(t)
    \/ \E message \in NoticeMessages : PageNotify(message)

SpecNotice == InitPage /\ [][NextNotice]_vars

----------------------------------------------------------------------------
(* Refreshes in flight, alone or two at a time, while counters, objectives *)
(* and the cursor are changed                                              *)

InitRefresh ==
    /\ buildFile = <<TitledBuild, SourcedBuild>>
    /\ stateFile = InitialState
    /\ origin = EmptyStr
    /\ InitServer
    /\ panel = PanelLoaded(FALSE, FALSE)
    /\ config = PageLoaded

\* the refreshes in flight together: a tick and the next one
RefreshIds == {1, 2}

NextRefresh ==
    \/ \E r \in RefreshIds : RefreshStart(r)
    \/ \E r \in RefreshIds : RefreshFetched(r, SomeSchedule, LaterMs)
    \/ \E r \in RefreshIds : RefreshFetchFailed(r)
    \/ CounterDeathsInc
    \/ PostObjectives(<<JsStr(<<"C">>)>>)
    \/ BuildNext

SpecRefresh == InitRefresh /\ [][NextRefresh]_vars

----------------------------------------------------------------------------
(* The delete button of a configuration page while other clients move the  *)
(* cursor and delete builds                                                *)

NextTarget ==
    \/ DeleteClick
    \/ \E i \in 1..MaxClicks : DeleteLoaded(i)
    \/ DeleteServed
    \/ \E ok \in BOOLEAN : DeleteAnswered(ok)
    \/ BuildNext
    \/ BuildSelect(JsNumber(2))
    \/ BuildDelete(JsUndefined)

SpecTarget == InitPage /\ [][NextTarget]_vars

----------------------------------------------------------------------------
(* Restarts: the process is started again over the files it left, or     *)
(* without its state.json, and its first refresh succeeds or fails,       *)
(* between requests that change the counters, objectives and cursor       *)

InitRestart ==
    /\ buildFile = <<TitledBuild, SourcedBuild>>
    /\ stateFile = InitialState
    /\ origin = EmptyStr
    /\ InitServer
    /\ panel = PanelLoaded(FALSE, FALSE)
    /\ config = PageLoaded

NextRestart ==
    \/ \E lost \in BOOLEAN : Restart(LaterMs, lost)
    \/ RefreshFetched(1, SomeSchedule, LaterMs)
    \/ RefreshFetchFailed(1)
    \/ CounterDeathsInc
    \/ PostObjectives(<<JsStr(<<"C">>)>>)
    \/ BuildNext
    \/ \E c \in ClientIds : WsConnect(c)

SpecRestart == InitRestart /\ [][NextRestart]_vars

----------------------------------------------------------------------------
(* The panel as a client of the server: its fetches are answered and the   *)
(* answers arrive, its socket is accepted and the messages arrive, its     *)
(* polling timer ticks, all of them without fail, while the counter and    *)
(* the cursor are changed a bounded number of times and the socket may     *)
(* fail or close                                                           *)

\* the instant at which the panel reads its clock
LiveNow == CHOOSE n \in NowSeconds : \A m \in NowSeconds : n <= m

InitLive ==
    /\ buildFile = <<TitledBuild, SourcedBuild>>
    /\ stateFile = InitialState
    /\ origin = EmptyStr
    /\ InitServer
    /\ \E hosted \in BOOLEAN : panel = PanelLoaded(hosted, FALSE)
    /\ config = PageLoaded

NextLive ==
    \/ PanelSeesDeathsInc
    \/ PanelNav("next")
    \/ PanelFetchServed
    \/ PanelFetchResolved(TRUE, LiveNow)
    \/ PanelWsAccepted
    \/ PanelWsDeliver(LiveNow)
    \/ PanelWsError
    \/ PanelWsClose
    \/ PanelPollTick

SpecLive ==
    /\ InitLive
    /\ [][NextLive]_vars
    /\ WF_vars(PanelFetchServed)
    /\ WF_vars(PanelFetchResolved(TRUE, LiveNow))
    /\ WF_vars(PanelWsAccepted)
    /\ WF_vars(PanelWsDeliver(LiveNow))
    /\ WF_vars(PanelPollTick)

----------------------------------------------------------------------------
(* Claims about the build catalog *)

\* the placeholder entry: source "manual" and the default title
PlaceholderEntry(b) == b.source = <<"manual">> /\ b.title = <<"Aucune build importée">>

\* a state document whose cursor is a valid index and whose build is the
\* entry under the cursor
CursorConsistent(doc) ==
    /\ doc.currentBuildIndex \in 0 .. Len(doc.builds) - 1
    /\ doc.build = doc.builds[doc.currentBuildIndex + 1]

\* C1: after any sequence of POST /build, import, /build/update and
\* /build/delete from the first-start state, build.json holds a non-empty
\* catalog, and a placeholder entry only as its sole element.
C1_CatalogNeverEmptyPlaceholderAlone ==
    /\ Len(buildFile) >= 1
    /\ \A i \in 1 .. Len(buildFile) :
          PlaceholderEntry(buildFile[i]) => Len(buildFile) = 1

\* C1 witness: a placeholder-shaped build was posted to a catalog that holds
\* other builds, and was stripped.
C1_Witness ==
    /\ resp.op = "POST /build"
    /\ PlaceholderEntry(resp.body.build)
    /\ Len(buildFile) >= 2

\* C2: every GET /state response and every broadcast payload carries the
\* catalog of build.json, a cursor inside it and the build under the cursor.
C2_StateAndBroadcastConsistent ==
    /\ (resp.op = "GET /state" =>
            resp.body.builds = buildFile /\ CursorConsistent(resp.body))
    /\ (bcast # <<>> =>
            bcast[1].builds = buildFile /\ CursorConsistent(bcast[1]))

\* C2 witness: GET /state answered while state.json held a cursor outside the
\* catalog.
C2_Witness ==
    /\ resp.op = "GET /state"
    /\ stateFile.currentBuildIndex >= Len(buildFile)

\* C3 (as claimed): the first message of a new realtime connection has its
\* cursor inside builds and build equal to builds[currentBuildIndex].
C3_FirstMessageConsistent ==
    wsFirst # <<>> => CursorConsistent(wsFirst[1])

\* C8 (as claimed): after POST /build the returned build is in the catalog,
\* the cursor is the last index and the build under it is the returned one,
\* on disk, in the next GET /state and in the broadcast.
C8_PostedBuildIsCurrent ==
    resp.op = "POST /build" =>
        /\ \E i \in 1 .. Len(buildFile) : buildFile[i] = resp.body.build
        /\ stateFile.currentBuildIndex = Len(buildFile) - 1
        /\ buildFile[Len(buildFile)] = resp.body.build
        /\ bcast # <<>>
        /\ bcast[1].currentBuildIndex = Len(buildFile) - 1
        /\ bcast[1].build = resp.body.build
        /\ ensureBuildState(buildFile, stateFile).build = resp.body.build

NavOps ==
    {"POST /build/update", "POST /build/next", "POST /build/prev",
     "POST /build/select", "POST /build/delete"}

\* C9 (as claimed): every success response of update, next, prev, select and
\* delete reports the catalog length, a cursor inside the catalog and the
\* build under it, and state.json holds the same cursor.
C9_NavResponseConsistent ==
    (resp.op \in NavOps /\ resp.status = 200) =>
        /\ resp.body.total = Len(buildFile)
        /\ resp.body.currentBuildIndex \in 0 .. resp.body.total - 1
        /\ resp.body.build = At(buildFile, resp.body.currentBuildIndex)
        /\ stateFile.currentBuildIndex = resp.body.currentBuildIndex

----------------------------------------------------------------------------
(* Claims about the counters *)

DeathsOps ==
    {"POST /counter/deaths/inc", "POST /counter/deaths/dec", "POST /counter/deaths/reset"}

UniquesOps ==
    {"POST /counter/uniques/inc", "POST /counter/uniques/dec",
     "POST /counter/uniques/reset"}

CounterOps == DeathsOps \cup UniquesOps \cup {"POST /counter/reset"}

C4_CounterStep ==
    LET d == stateFile.counters.deaths
        u == stateFile.counters.uniques
    IN  /\ resp'.op = "POST /counter/deaths/inc" => stateFile'.counters.deaths = d + 1
        /\ resp'.op = "POST /counter/deaths/dec" =>
               stateFile'.counters.deaths = (IF d = 0 THEN 0 ELSE d - 1)
        /\ resp'.op = "POST /counter/uniques/inc" => stateFile'.counters.uniques = u + 1
        /\ resp'.op = "POST /counter/uniques/dec" =>
               stateFile'.counters.uniques = (IF u = 0 THEN 0 ELSE u - 1)

\* C4: from deaths = 0 and uniques = 0, after any sequence of counter calls
\* both counters are non-negative integers; a dec at 0 leaves 0, a dec at
\* n > 0 yields n - 1, an inc at n yields n + 1.
C4_CountersNonNegative ==
    /\ [](stateFile.counters.deaths \in Nat /\ stateFile.counters.uniques \in Nat)
    /\ [][C4_CounterStep]_vars

\* C4 witness: a decrement answered with the counter at 0 while the other
\* counter has been raised.
C4_Witness ==
    /\ resp.op = "POST /counter/deaths/dec"
    /\ resp.body.deaths = 0
    /\ stateFile.counters.deaths = 0
    /\ stateFile.counters.uniques = MaxCount

C5_CounterFrame ==
    /\ resp'.op \in DeathsOps =>
           stateFile'.counters.uniques = stateFile.counters.uniques
    /\ resp'.op \in UniquesOps =>
           stateFile'.counters.deaths = stateFile.counters.deaths
    /\ resp'.op = "POST /counter/reset" =>
           stateFile'.counters = [deaths |-> 0, uniques |-> 0]
    /\ resp'.op \in CounterOps =>
           /\ stateFile'.objectives = stateFile.objectives
           /\ stateFile'.events = stateFile.events
           /\ buildFile' = buildFile
           /\ stateFile'.builds = stateFile.builds
           /\ stateFile'.currentBuildIndex = stateFile.currentBuildIndex

\* C5: a deaths call leaves uniques unchanged and a uniques call leaves
\* deaths unchanged; every counter call, the combined reset (which zeroes
\* both) included, leaves objectives, events, catalog and cursor unchanged.
C5_CountersIndependent == [][C5_CounterFrame]_vars

\* C5 witness: the deaths-only reset answered with uniques raised, after the
\* objectives, the events, the catalog and the cursor have all been changed.
C5_Witness ==
    /\ resp.op = "POST /counter/deaths/reset"
    /\ stateFile.counters.uniques = MaxCount
    /\ stateFile.counters.deaths = 0
    /\ stateFile.objectives # InitialObjectives
    /\ stateFile.events # NoEvents
    /\ Len(buildFile) >= 2
    /\ stateFile.currentBuildIndex = 0

----------------------------------------------------------------------------
(* Claims about the cursor *)

\* the cursor as GET /state reports it: the stored one when it is a valid
\* index of the catalog
Cursor ==
    IF stateFile.currentBuildIndex \in 0 .. Len(buildFile) - 1
    THEN stateFile.currentBuildIndex
    ELSE Len(buildFile) - 1

RECURSIVE nextTimes(_, _, _)
nextTimes(k, i, total) ==
    IF k = 0 THEN i ELSE nextTimes(k - 1, nextIndex(i, total), total)

C6_NavStep ==
    LET N == Len(buildFile)
    IN  /\ resp'.op = "POST /build/next" =>
               stateFile'.currentBuildIndex = (Cursor + 1) % N
        /\ resp'.op = "POST /build/prev" =>
               stateFile'.currentBuildIndex = (Cursor - 1 + N) % N
        /\ resp'.op \in {"POST /build/next", "POST /build/prev"} =>
               /\ buildFile' = buildFile
               /\ stateFile'.counters = stateFile.counters
               /\ stateFile'.objectives = stateFile.objectives

C6_RoundTrip ==
    LET N == Len(buildFile)
    IN  /\ prevIndex(nextIndex(Cursor, N), N) = Cursor
        /\ nextIndex(prevIndex(Cursor, N), N) = Cursor
        /\ nextTimes(N, Cursor, N) = Cursor

\* C6: for a catalog of length N and cursor i, next sets the cursor to
\* (i+1) mod N and prev to (i-1+N) mod N; prev after next, next after prev and
\* N consecutive next calls restore the cursor; neither call changes the
\* catalog, the counters or the objectives.
C6_NextPrevCycle == [](C6_RoundTrip) /\ [][C6_NavStep]_vars

\* C6 witness: next answered with the cursor wrapped to 0 in a catalog of
\* three builds, with counters and objectives changed beforehand.
C6_Witness ==
    /\ resp.op = "POST /build/next"
    /\ Len(buildFile) = 3
    /\ resp.body.currentBuildIndex = 0
    /\ stateFile.counters.deaths > 0
    /\ stateFile.objectives # InitialObjectives

\* an index that is missing or is not a finite number
NotFiniteNumber(index) == index.t # "number"

C7_SelectStep ==
    \A index \in IndexValues :
        (BuildSelect(index) \/ BuildSelectRejected(index)) =>
            IF NotFiniteNumber(index)
            THEN /\ resp'.status = 400
                 /\ resp'.body = [error |-> "index requis"]
                 /\ stateFile' = stateFile
                 /\ buildFile' = buildFile
                 /\ bcast' = <<>>
            ELSE /\ resp'.status = 200
                 /\ stateFile'.currentBuildIndex =
                        Min(Max(0, mathTrunc(index.halves)), Len(buildFile) - 1)

\* C7 (as claimed): /build/select with an index that is missing or not a
\* finite number answers 400 "index requis", writes nothing and broadcasts
\* nothing; with a finite index k the cursor becomes trunc(k) clamped into
\* [0, N-1].
C7_SelectValidation == [][C7_SelectStep]_vars

----------------------------------------------------------------------------
(* Claims about /build/update *)

EditableFields == {"source", "title", "author", "updatedOn", "url"}

\* the catalog without its entry at index t
Without(builds, t) ==
    [j \in 1 .. Len(builds) - 1 |-> IF j <= t THEN builds[j] ELSE builds[j + 1]]

C10_OriginalStep ==
    \A index \in UpdateIndexes : \A body \in UpdateBodies :
        BuildUpdate(index, body) =>
            LET t == IF index.t = "number"
                     THEN Min(Max(0, mathTrunc(index.halves)), Len(buildFile) - 1)
                     ELSE Cursor
            IN  /\ Len(buildFile') = Len(buildFile)
                /\ \A j \in 1 .. Len(buildFile) :
                       j # t + 1 => buildFile'[j] = buildFile[j]
                /\ \A f \in EditableFields :
                       body[f] = Absent => buildFile'[t + 1][f] = buildFile[t + 1][f]

C10_AmendedStep ==
    \A index \in UpdateIndexes : \A body \in UpdateBodies :
        BuildUpdate(index, body) =>
            LET t == CASE index.t = "number" ->
                            Min(Max(0, mathTrunc(index.halves)), Len(buildFile) - 1)
                       [] index.t = "null" -> 0
                       [] OTHER -> Cursor
                old == buildFile[t + 1]
                given(f, dflt) ==
                    IF body[f] = Absent THEN old[f]
                    ELSE IF trim(body[f][1]) = <<>> THEN dflt ELSE trim(body[f][1])
                removed ==
                    /\ given("source", <<"manual">>) = <<"manual">>
                    /\ given("title", <<"Aucune build importée">>)
                           = <<"Aucune build importée">>
                    /\ Len(buildFile) > 1
            IN  IF removed
                THEN buildFile' = Without(buildFile, t)
                ELSE /\ Len(buildFile') = Len(buildFile)
                     /\ \A j \in 1 .. Len(buildFile) :
                            j # t + 1 => buildFile'[j] = buildFile[j]
                     /\ \A f \in EditableFields :
                            body[f] = Absent => buildFile'[t + 1][f] = trim(old[f])

----------------------------------------------------------------------------
(* Claims about /build/delete *)

\* the index /build/delete resolves: Number(index) truncated and clamped when
\* it is finite (null counts as 0), else the cursor
DeleteTarget(index) ==
    CASE index.t = "number" ->
             Min(Max(0, mathTrunc(index.halves)), Len(buildFile) - 1)
      [] index.t = "null" -> 0
      [] OTHER -> Cursor

C11_DeleteStep ==
    \A index \in DeleteIndexes :
        BuildDelete(index) =>
            IF Len(buildFile) > 1
            THEN buildFile' = Without(buildFile, DeleteTarget(index))
            ELSE /\ buildFile' =
                        << [source |-> <<"manual">>, title |-> <<"Aucune build importée">>,
                            author |-> <<>>, updatedOn |-> <<>>, url |-> <<>>,
                            highlights |-> <<>>] >>
                 /\ stateFile'.currentBuildIndex = 0

\* C11: /build/delete on a catalog of length N > 1 removes exactly the build
\* at the target index and keeps the other N-1 builds in their order; on a
\* catalog of length 1 it leaves the single default placeholder with cursor 0.
C11_DeleteRemovesTarget == [][C11_DeleteStep]_vars

\* C11 witness: a delete answered with two builds left and the cursor on the
\* second: the target was the second or third of three builds.
C11_Witness ==
    /\ resp.op = "POST /build/delete"
    /\ resp.body.total = 2
    /\ resp.body.currentBuildIndex = 1
    /\ Len(buildFile) = 2

C12_DeleteCursorStep ==
    \A index \in DeleteIndexes :
        BuildDelete(index) =>
            stateFile'.currentBuildIndex = Min(Cursor, Len(buildFile') - 1)

\* C12 (as claimed): after /build/delete the cursor is the cursor from before
\* the delete clamped to the new length, min(previous cursor, new length - 1).
C12_DeleteClampsPreviousCursor == [][C12_DeleteCursorStep]_vars

----------------------------------------------------------------------------
(* Claims about /objectives *)

\* String(x) of every element, in order
Stringified(items) ==
    [i \in 1 .. Len(items) |->
        IF items[i].t = "string" THEN items[i].s ELSE <<ToString(items[i].n)>>]

C13_ObjectivesStep ==
    \A items \in ObjectiveLists :
        PostObjectives(items) =>
            /\ resp'.status = 200
            /\ stateFile'.objectives = Stringified(items)
            /\ Len(stateFile'.objectives) = Len(items)
            /\ stateFile'.counters = stateFile.counters
            /\ stateFile'.events = stateFile.events
            /\ buildFile' = buildFile
            /\ stateFile'.builds = stateFile.builds
            /\ stateFile'.currentBuildIndex = stateFile.currentBuildIndex

\* C13: a successful POST /objectives with array L makes the stored
\* objectives exactly L stringified (same order and length, the empty list
\* included), whatever was stored before, and leaves counters, events, build
\* catalog and cursor unchanged.
C13_ObjectivesReplaced == [][C13_ObjectivesStep]_vars

\* C13 witness: the list ["C"] saved after the counters, the events, the
\* catalog and the cursor have changed.
C13_Witness ==
    /\ resp.op = "POST /objectives"
    /\ resp.status = 200
    /\ stateFile.objectives = << <<"C">> >>
    /\ stateFile.counters.deaths > 0
    /\ stateFile.events # NoEvents
    /\ Len(buildFile) >= 2
    /\ stateFile.currentBuildIndex = 0

C14_RejectedStep ==
    \A v \in NotArrays :
        PostObjectivesRejected(v) =>
            /\ resp'.status = 400
            /\ resp'.body = [error |-> "Body attendu: { objectives: string[] }"]
            /\ stateFile' = stateFile
            /\ buildFile' = buildFile
            /\ bcast' = <<>>
            /\ \A i \in 1 .. Len(effects') : effects'[i].e \notin {"write", "send"}

\* C14: POST /objectives without an objectives field or with a value that is
\* no array answers 400 with the fixed message, leaves state.json unchanged
\* and broadcasts nothing.
C14_ObjectivesRejected == [][C14_RejectedStep]_vars

\* C14 witness: a rejected save answered while a previously saved list is
\* stored.
C14_Witness ==
    /\ resp.op = "POST /objectives"
    /\ resp.status = 400
    /\ stateFile.objectives = << <<"A">>, <<"B">> >>

----------------------------------------------------------------------------
(* Claims about /import/mobalytics *)

ImportStep(q) ==
    \/ \E answered \in BOOLEAN : ImportMalformed(q, answered)
    \/ ImportRejected(q)
    \/ \E failure \in ImportFailures : ImportFailed(q, failure)
    \/ ImportMobalytics(q, GuidePage)

\* the url of the query, decoded and trimmed, does not start with
\* https://mobalytics.gg/
NotGuideUrl(q) ==
    LET url == trim([i \in DOMAIN q |-> IF q[i] = "%20" THEN " " ELSE q[i]])
    IN  url = <<>> \/ url[1] # "https://mobalytics.gg/"

NoFetchWriteSend(fx) == \A i \in 1 .. Len(fx) : fx[i].e \notin {"fetch", "write", "send"}

C15_RejectStep ==
    \A q \in ImportQueries :
        (NotGuideUrl(q) /\ ImportStep(q)) =>
            /\ resp'.status = 400
            /\ NoFetchWriteSend(effects')
            /\ buildFile' = buildFile
            /\ stateFile' = stateFile
            /\ bcast' = <<>>

\* C15 (as claimed): GET /import/mobalytics with a url that, decoded and
\* trimmed, does not start with https://mobalytics.gg/ answers 400, issues no
\* outbound fetch, changes neither build.json nor state.json and broadcasts
\* nothing.
C15_ForeignUrlRejected == [][C15_RejectStep]_vars

C16_FailedStep ==
    \A q \in ImportQueries : \A failure \in ImportFailures :
        ImportFailed(q, failure) =>
            /\ resp'.status = 500
            /\ DOMAIN resp'.body = {"error"}
            /\ resp'.body.error.status = failure
            /\ buildFile' = buildFile
            /\ stateFile' = stateFile
            /\ bcast' = <<>>
            /\ \A i \in 1 .. Len(effects') : effects'[i].e \notin {"write", "send"}

\* C16: when the importer fails (no connection, or a non-success status of
\* the build page) GET /import/mobalytics answers 500 with {error: message},
\* the catalog, the cursor and the rest of state.json are as before and
\* nothing is broadcast.
C16_ImportFailureLeavesState == [][C16_FailedStep]_vars

\* C16 witness: the build page answered 404 while the catalog holds several
\* builds, the cursor is not on the last one and a client is connected.
C16_Witness ==
    /\ resp.op = "GET /import/mobalytics"
    /\ resp.status = 500
    /\ resp.body.error.status = 404
    /\ Len(buildFile) >= 2
    /\ stateFile.currentBuildIndex = 0
    /\ clients[1] = "open"

----------------------------------------------------------------------------
(* Claims about the event refresh *)

TickFailure ==
    \/ RefreshTickFailed
    \/ \E schedule \in Schedules : \E now \in Times : RefreshTickThrown(schedule, now)

ManualFailure ==
    \/ PostEventsRefreshFailed
    \/ \E schedule \in Schedules : \E now \in Times :
          PostEventsRefreshThrown(schedule, now)

C17_FailureStep ==
    /\ (TickFailure \/ ManualFailure) =>
           /\ stateFile' = stateFile
           /\ buildFile' = buildFile
           /\ bcast' = <<>>
           /\ \A i \in 1 .. Len(effects') : effects'[i].e \notin {"write", "send"}
    /\ TickFailure => resp' = [op |-> "none", status |-> 0, body |-> <<>>]
    /\ ManualFailure =>
           /\ resp'.status = 500
           /\ resp'.body = [ok |-> FALSE, error |-> "refresh failed"]

\* C17: when the schedule fetch fails, refreshEvents leaves state.json (the
\* stored events and nowIso included) unchanged and broadcasts nothing; the
\* timer tick surfaces nothing and POST /events/refresh answers 500
\* {ok:false, error:"refresh failed"}.
C17_RefreshFailureLeavesState == [][C17_FailureStep]_vars

\* C17 witness: the manual refresh answered 500 while events and nowIso of an
\* earlier refresh are stored and a client is connected.
C17_Witness ==
    /\ resp.op = "POST /events/refresh"
    /\ resp.status = 500
    /\ stateFile.events.nextWorldBoss # <<>>
    /\ stateFile.nowIso = LaterMs
    /\ clients[1] = "open"

\* floor(ms / 1000)
FloorSeconds(ms) == CHOOSE k \in -10 .. 10 : 1000 * k <= ms /\ ms < 1000 * (k + 1)

\* p is the projection of the soonest entry of list that starts validly and
\* strictly after now, or null when there is none
SoonestProjection(p, list, now, type) ==
    LET entries == IF list = <<>> THEN <<>> ELSE list[1]
        upcoming == {i \in 1 .. Len(entries) :
                        entries[i].startTime.t # "text" /\ entries[i].startTime.ms > now}
    IN  IF upcoming = {} THEN p = <<>>
        ELSE /\ p # <<>>
             /\ \E i \in upcoming :
                   /\ \A j \in upcoming :
                          entries[i].startTime.ms <= entries[j].startTime.ms
                   /\ p[1].type = type
                   /\ p[1].startTime = entries[i].startTime
                   /\ p[1].startTs = FloorSeconds(entries[i].startTime.ms)
                   /\ type = "world_boss" =>
                          p[1].title = IF entries[i].boss = <<>> THEN <<"World Boss">>
                                       ELSE <<"World Boss:", " ">> \o entries[i].boss

C18_RefreshStep ==
    \A schedule \in Schedules : \A now \in Times :
        (RefreshTick(schedule, now) \/ PostEventsRefresh(schedule, now)) =>
            /\ SoonestProjection(stateFile'.events.nextWorldBoss,
                                 schedule.world_boss, now, "world_boss")
            /\ SoonestProjection(stateFile'.events.nextLegion,
                                 schedule.legion, now, "legion")
            /\ SoonestProjection(stateFile'.events.nextHelltide,
                                 schedule.helltide, now, "helltide")

\* C18: for each of the three event kinds on its own, a successful refresh
\* stores the projection of the entry with the smallest start time among the
\* entries whose start time is valid and strictly greater than the current
\* instant, with startTs = floor(startMs / 1000), and null when no entry
\* qualifies.
C18_SoonestUpcomingStored == [][C18_RefreshStep]_vars

\* C18 witness: a refresh at instant 1000 stored the world boss starting at
\* 1500 (startTs 1) out of entries that also start at 0, 1000 and 2500 or are
\* no date, null for the legion and a helltide.
C18_Witness ==
    /\ resp.op = "POST /events/refresh"
    /\ resp.status = 200
    /\ stateFile.nowIso = LaterMs
    /\ stateFile.events.nextWorldBoss # <<>>
    /\ stateFile.events.nextWorldBoss[1].startTime.ms = 1500
    /\ stateFile.events.nextWorldBoss[1].startTs = 1
    /\ stateFile.events.nextLegion = <<>>
    /\ stateFile.events.nextHelltide # <<>>

----------------------------------------------------------------------------
(* Claims about the broadcast *)

MutatingOps ==
    CounterOps \cup NavOps
        \cup {"POST /build", "POST /objectives", "GET /import/mobalytics",
              "POST /events/refresh"}

\* positions of the effects of kind e
Positions(fx, e) == {i \in 1 .. Len(fx) : fx[i].e = e}

C19_BroadcastStep ==
    LET fx == effects'
        writes == Positions(fx, "write")
        sends == Positions(fx, "send")
        answers == Positions(fx, "respond")
        served == resp'.status = 200 /\ resp'.op \in MutatingOps
        ticked == RefreshTick(SomeSchedule, LaterMs)
    IN  /\ (served \/ ticked) =>
               /\ writes # {}
               /\ \A w \in writes : \A m \in sends : w < m
               /\ \A c \in ClientIds :
                      Cardinality({m \in sends : fx[m].to = c})
                          = IF clients[c] = "open" THEN 1 ELSE 0
               /\ bcast' # <<>>
               /\ bcast'[1].counters = stateFile'.counters
               /\ bcast'[1].objectives = stateFile'.objectives
               /\ bcast'[1].events = stateFile'.events
               /\ bcast'[1].nowIso = stateFile'.nowIso
               /\ bcast'[1].builds = buildFile'
        /\ served =>
               /\ Cardinality(answers) = 1
               /\ \A m \in sends \cup writes : \A a \in answers : m < a
        /\ resp'.status = 400 => (sends = {} /\ bcast' = <<>>)

\* C19: for every successful state-mutating request and every successful
\* refresh the write to disk precedes the broadcast, each connection open at
\* that moment gets exactly one message and no other connection gets any,
\* the message carries what was written, and it is sent before the HTTP
\* response; a request rejected with 400 sends no message.
C19_WriteThenBroadcastThenRespond == [][C19_BroadcastStep]_vars

\* C19 witness: an import served with one client open and the other closing:
\* fetch, write, one send to the open client, response.
C19_Witness ==
    /\ resp.op = "GET /import/mobalytics"
    /\ resp.status = 200
    /\ clients[1] = "open"
    /\ clients[2] = "closing"
    /\ Len(effects) = 4
    /\ effects[3] = [e |-> "send", to |-> 1]

----------------------------------------------------------------------------
(* Claims about requests in flight together *)

\* C20 (as claimed): while one handler is between its read of state.json and
\* its write, the handler of another request in flight can run, so that the
\* later write overwrites the other update.
C20_HandlersInterleave ==
    ((\E r \in RequestIds : requests[r].pc = "read")
        /\ (\E r \in RequestIds : requests[r].pc = "pending"))
    => ENABLED (\E r \in RequestIds : CounterIncRead(r))

Completed(kind) ==
    Cardinality({r \in RequestIds : requests[r].pc = "done" /\ requests[r].kind = kind})

\* C20 (amended): requests in flight together are handled one after the
\* other, each handler reading, incrementing and writing state.json with no
\* other handler in between, so no update is lost: each counter equals the
\* number of its completed increments (two concurrent /counter/deaths/inc
\* raise deaths by 2).
C20_NoLostUpdate ==
    /\ stateFile.counters.deaths = Completed("deaths")
    /\ stateFile.counters.uniques = Completed("uniques")
    /\ Cardinality({r \in RequestIds : requests[r].pc = "read"}) <= 1

\* C20 witness: two deaths increments completed, the second one read while a
\* third request was in flight.
C20_Witness ==
    /\ requests[1].pc = "done" /\ requests[1].kind = "deaths"
    /\ requests[2].pc = "done" /\ requests[2].kind = "deaths"
    /\ requests[3].pc = "pending"
    /\ stateFile.counters.deaths = 2
    /\ resp.op = "POST /counter/deaths/inc"
    /\ resp.body.deaths = 2

----------------------------------------------------------------------------
(* Claims about the response headers *)

\* an Origin of the form https://<letters and digits>.ext-twitch.tv, or one of
\* the three development origins
AllowedOrigin(o) ==
    \/ o \in { <<"http://localhost:3199">>, <<"http://localhost:3000">>,
               <<"http://localhost:5173">> }
    \/ /\ Len(o) = 3
       /\ o[1] = "https://"
       /\ o[2] \in AlphanumericRuns
       /\ o[3] = ".ext-twitch.tv"

\* C21 (as claimed): on every route (GET /health, GET /state, the import, every
\* POST route) the response carries Access-Control-Allow-Origin exactly when
\* the Origin of the request is an extension origin or one of the three
\* development origins, and its value is then that Origin.
C21_AllowOriginIffAllowed ==
    resp.op \notin {"none", "OPTIONS"} =>
        headers.allowOrigin = (IF AllowedOrigin(origin) THEN <<origin>> ELSE <<>>)

\* C22 (as claimed): every response of a mutating endpoint (the counters,
\* POST /build and /build/*, POST /objectives, POST /events/refresh and
\* GET /import/mobalytics) carries Cache-Control: no-store.
C22_MutatingResponsesNoStore ==
    resp.op \in MutatingOps => headers.cacheControl = <<"no-store">>

----------------------------------------------------------------------------
(* Claims about files of unexpected content *)

\* GET /state, the counter, navigation and objectives endpoints
TolerantOps ==
    {"GET /state", "POST /build/next", "POST /build/prev", "POST /build/select",
     "POST /objectives"} \cup CounterOps

\* C23 (as claimed): whatever state.json and build.json hold (missing,
\* unparseable, a value that is no object, fields missing or of another type),
\* GET /state and the counter, navigation and objectives endpoints, called
\* with a valid body, answer successfully and never with a 5xx.
C23_BadFilesNeverServerError ==
    resp.op \in TolerantOps => resp.status = 200

\* the cursor of document doc is an integer index of a catalog of n builds
ValidCursor(doc, n) ==
    /\ truthyObject(doc)
    /\ "currentBuildIndex" \in DOMAIN doc
    /\ numberIsInteger(doc.currentBuildIndex)
    /\ doc.currentBuildIndex >= 0
    /\ doc.currentBuildIndex < n

BuildObjects(builds) == \A i \in DOMAIN builds : builds[i] # NullEntry

\* C24: GET /state answers ensureBuildState of the stored document.  For a
\* catalog of N >= 1 builds and any stored currentBuildIndex (missing,
\* negative, fractional, no number, >= N) the result holds a cursor in
\* 0 .. N-1, the stored one when it was a valid integer index and N-1
\* otherwise, its build is the catalog entry under the cursor, and applying
\* ensureBuildState to the result changes nothing.
C24_CursorRepaired ==
    (resp.op = "GET /state" /\ BuildObjects(resp.body.builds)) =>
        LET out == resp.body
            n == Len(out.builds)
        IN  /\ n >= 1
            /\ out.currentBuildIndex \in 0 .. n - 1
            /\ out.currentBuildIndex =
                   (IF ValidCursor(readState, n) THEN readState.currentBuildIndex
                    ELSE n - 1)
            /\ out.build = out.builds[out.currentBuildIndex + 1]
            /\ ensureBuildState(buildFile, out) = out

\* a catalog of three builds and a stored cursor of 1.5: answered with cursor 2
C24_Witness ==
    /\ resp.op = "GET /state"
    /\ Len(buildFile) = 3
    /\ "currentBuildIndex" \in DOMAIN stateFile
    /\ ~numberIsInteger(stateFile.currentBuildIndex)
    /\ ToString(stateFile.currentBuildIndex) = ToString(JsNumber(3))
    /\ resp.body.currentBuildIndex = 2
    /\ resp.body.build = buildFile[3]

\* C25: stripPlaceholder on what build.json holds.  A list with at least one
\* build that is no placeholder gives those builds in their order; an empty
\* list, a value that is no list, and a list of two or more placeholders give
\* the one-element list of the default placeholder; a one-element list is
\* returned unchanged; stripping the result again changes nothing; GET /state
\* answers with the stripped catalog.
C25_PlaceholdersStripped ==
    ~filterThrows(buildFile) =>
        LET out == stripPlaceholder(buildFile)
            isList == arrayIsArray(buildFile)
            kept == SelectSeq(buildFile, LAMBDA b : ~PlaceholderEntry(b))
        IN  /\ (~isList \/ buildFile = <<>>) => out = <<defaultBuild>>
            /\ (isList /\ Len(buildFile) = 1) => out = buildFile
            /\ (isList /\ Len(buildFile) > 1 /\ kept # <<>>) => out = kept
            /\ (isList /\ Len(buildFile) > 1 /\ kept = <<>>) => out = <<defaultBuild>>
            /\ stripPlaceholder(out) = out
            /\ resp.op = "GET /state" => resp.body.builds = out

\* a placeholder between two builds: GET /state answers with the two builds
C25_Witness ==
    /\ buildFile = <<TitledBuild, defaultBuild, SourcedBuild>>
    /\ resp.op = "GET /state"
    /\ resp.body.builds = <<TitledBuild, SourcedBuild>>

----------------------------------------------------------------------------
(* Claims about the panel page *)

CountdownKeys == {"nextWorldBoss", "nextLegion", "nextHelltide"}

CountdownShown(key) ==
    CASE key = "nextWorldBoss" -> panel.wbTime
      [] key = "nextLegion" -> panel.legTime
      [] key = "nextHelltide" -> panel.htTime

AbsentOrNonFinite(v) == ToString(v) \in {ToString(x) : x \in NotFinite}

TwoDigits(n) == ToString(n \div 10) \o ToString(n % 10)

\* the text of a remaining time of d > 0 seconds
RemainingText(d) ==
    IF d < 3600 THEN ToString(d \div 60) \o ":" \o TwoDigits(d % 60)
    ELSE ToString(d \div 3600) \o ":" \o TwoDigits((d % 3600) \div 60)
         \o ":" \o TwoDigits(d % 60)

\* the countdowns on display follow the rule for the state and the instant
\* they were computed from, a target of 0 counting as no value or as a time
CountdownsFollowRule(zeroIsNoValue) ==
    (panel.currentState # <<>> /\ panel.tickedAt # <<>>) =>
        \A key \in CountdownKeys :
            LET target == startTsOf(panel.currentState[1], key)
                now == panel.tickedAt[1]
                noValue == IF AbsentOrNonFinite(target) THEN TRUE
                           ELSE zeroIsNoValue /\ target = 0
            IN  CountdownShown(key) =
                    IF noValue THEN EmDash
                    ELSE IF target - now <= 0 THEN "0:00"
                    ELSE RemainingText(target - now)

C28_PollingIffChannelNotOk ==
    /\ [](panel.wsOk => panel.heard = "message")
    /\ [](panel.hosted => (panel.socket = "none" /\ ~panel.wsOk))
    /\ [][panel'.pollTicks # panel.pollTicks =>
            /\ (panel'.fetching = panel.fetching + 1) <=> ~panel.wsOk
            /\ (panel'.fetching = panel.fetching) <=> panel.wsOk
            /\ (panel'.poll = "fetched") <=> ~panel.wsOk
            /\ (panel'.poll = "skipped") <=> panel.wsOk
            /\ panel.hosted => panel'.poll = "fetched"]_vars

C28_Witness ==
    /\ ~panel.hosted
    /\ panel.wsOk
    /\ panel.poll = "skipped"
    /\ panel.fetching = 0

----------------------------------------------------------------------------
(* Claims about the configuration pages *)

Deletes == {k \in DOMAIN config.log : config.log[k].did = "delete"}

Decisions == {k \in DOMAIN config.log : config.log[k].did \in {"arm", "delete"}}

NoDeleteBetween(j, k) ==
    \A i \in DOMAIN config.log : (j < i /\ i < k) => config.log[i].did # "delete"

\* the latest decision before decision k, or 0
PreviousDecision(k) ==
    IF \E j \in Decisions : j < k
    THEN CHOOSE j \in Decisions : j < k /\ \A i \in Decisions : i < k => i <= j
    ELSE 0

\* C27 as stated: a delete is sent only for a delete click that lies at most
\* 5 seconds from another delete click whose handler ran before, with no
\* delete sent in between
C27_DeleteFollowsClickWithin5s ==
    \A k \in Deletes :
        \E j \in DOMAIN config.log :
            /\ j < k
            /\ config.log[k].clicked - config.log[j].clicked <= ArmedMs
            /\ config.log[j].clicked - config.log[k].clicked <= ArmedMs
            /\ NoDeleteBetween(j, k)

\* C27, amended: a delete is sent only by a delete handler that decides (once
\* it has loaded the state) at most 5 seconds after an earlier delete handler
\* armed the button, with no delete sent in between; the first handler to
\* decide, and one that decides more than 5 seconds after the button was last
\* armed, only (re)arms; and the handler that decides next after a confirming
\* one only arms
C27_DeleteFollowsArmingWithin5s ==
    /\ \A k \in Deletes :
        \E j \in DOMAIN config.log :
            /\ j < k
            /\ config.log[j].did = "arm"
            /\ config.log[k].at - config.log[j].at <= ArmedMs
            /\ NoDeleteBetween(j, k)
    /\ \A k \in Decisions :
        LET j == PreviousDecision(k)
        IN  /\ j = 0 => config.log[k].did = "arm"
            /\ (j # 0 /\ config.log[j].did = "delete") => config.log[k].did = "arm"
            /\ (\A i \in Decisions :
                    (i < k /\ config.log[i].did = "arm")
                        => config.log[k].at - config.log[i].at > ArmedMs)
                => config.log[k].did = "arm"
    /\ Len(config.posted) <= Cardinality(Deletes)

C27_Witness ==
    /\ Len(config.log) = 3
    /\ config.log[1].did = "arm"
    /\ config.log[2].did = "delete"
    /\ config.log[3].did = "arm"
    /\ config.log[2].at - config.log[1].at = ArmedMs

\* C29: a notice is not cleared before 3 seconds have passed since the notify
\* call that displayed it (a notice that a later call replaces is not
\* cleared but replaced): no timer of an earlier call clears the notice of a
\* later call
C29_NoticeStaysThreeSeconds ==
    [][(config.notice.text # "" /\ config'.notice.text = "")
          => config'.now >= config.notice.at + NoticeMs]_vars

----------------------------------------------------------------------------
(* Claims about refreshes in flight *)

RefreshCompletes(r) ==
    /\ requests[r].kind = "refresh"
    /\ requests[r].pc = "fetching"
    /\ requests'[r].pc = "refreshed"

\* C30: the step in which a refresh writes changes only nowIso, events and
\* the builds and build taken from the catalog: the counters, the objectives
\* and the cursor it writes are those on disk just before, whatever was on
\* disk when its fetch was sent, and whatever other refresh is in flight
C30_RefreshKeepsConcurrentChanges ==
    [][\A r \in RequestIds :
          RefreshCompletes(r) =>
              /\ stateFile'.counters = stateFile.counters
              /\ stateFile'.objectives = stateFile.objectives
              /\ stateFile'.currentBuildIndex = stateFile.currentBuildIndex
              /\ stateFile'.timezone = stateFile.timezone
              /\ stateFile'.builds = buildFile
              /\ stateFile'.build = buildFile[stateFile.currentBuildIndex + 1]]_vars

\* a refresh has just written although, since its fetch was sent, the
\* counters, the objectives and the cursor had all changed, while another
\* refresh is in flight
C30_Witness ==
    /\ resp = NoResponse
    /\ bcast # <<>>
    /\ \E r \in RequestIds :
        /\ requests[r].pc = "refreshed"
        /\ requests[r].state[1].counters.deaths # stateFile.counters.deaths
        /\ requests[r].state[1].objectives # stateFile.objectives
        /\ requests[r].state[1].currentBuildIndex # stateFile.currentBuildIndex
    /\ \E r \in RequestIds : requests[r].pc = "fetching"

----------------------------------------------------------------------------
(* Claims about the target of a confirmed delete *)

\* the handler that armed the button for the confirming handler k
ArmingOf(k) ==
    CHOOSE j \in DOMAIN config.log :
        /\ j < k
        /\ config.log[j].did = "arm"
        /\ \A i \in DOMAIN config.log :
              (i < k /\ config.log[i].did = "arm") => i <= j

\* C31: the build the server removes for a confirming delete click is the
\* build at the position named in the arming notice: the build that was
\* there when the notice was shown, or at least the same position
C31_RemovedIsNamedBuild ==
    \A k \in Deletes :
        LET n == Cardinality({i \in Deletes : i <= k})
            armed == config.log[ArmingOf(k)]
        IN  n <= Len(config.removed) =>
                \/ config.removed[n] = armed.build
                \/ config.log[k].current = armed.current

----------------------------------------------------------------------------
(* Claims about the highlights and the cursor after /build/update *)

----------------------------------------------------------------------------
(* Claims about restarts *)

\* the first refresh after a restart ends, no request having been handled
\* since the restart
FirstRefreshEnds ==
    /\ requests[1].kind = "restart"
    /\ requests[1].pc = "fetching"
    /\ requests'[1].pc # "fetching"
    /\ stateFile = requests[1].state[1]

\* C34: a restart over an existing state.json and build.json writes neither
\* file, and when the first refresh after it ends, with success or not, the
\* counters, the objectives, the catalog and the cursor are those of before
\* the restart
C34_RestartKeepsFiles ==
    [][/\ Restart(LaterMs, FALSE) => (stateFile' = stateFile /\ buildFile' = buildFile)
       /\ FirstRefreshEnds =>
            /\ stateFile'.counters = requests[1].state[1].counters
            /\ stateFile'.objectives = requests[1].state[1].objectives
            /\ stateFile'.currentBuildIndex = requests[1].state[1].currentBuildIndex
            /\ buildFile' = buildFile]_vars

\* the first refresh after a restart has written the new events over a state
\* whose counter, objectives and cursor had been changed before the restart
C34_Witness ==
    /\ requests[1].kind = "restart"
    /\ requests[1].pc = "refreshed"
    /\ resp = NoResponse
    /\ bcast # <<>>
    /\ stateFile.events # NoEvents
    /\ stateFile.counters.deaths = MaxCount
    /\ stateFile.objectives # InitialObjectives
    /\ stateFile.currentBuildIndex = 1
    /\ stateFile.counters = requests[1].state[1].counters

----------------------------------------------------------------------------
(* Claims about the panel as a client *)

\* the panel displays the counters and the cursor the server holds
PanelShowsLatest ==
    /\ panel.currentState # <<>>
    /\ panel.currentState[1].counters.deaths = stateFile.counters.deaths
    /\ panel.currentState[1].currentBuildIndex = stateFile.currentBuildIndex

\* C32: once the state is no longer changed, the panel eventually displays the
\* latest state of the server and keeps displaying it, when the answers to
\* its fetches, the messages on its socket and its timer ticks all arrive,
\* in whatever order they do and whether or not the socket fails or closes
C32_PanelConverges == <>[]PanelShowsLatest

====
